---- MODULE Spec2Model ----
(***************************************************************************)
(* A model of backports.lzma: the incremental codec drivers                *)
(* (LZMACompressor, LZMADecompressor in backports/lzma/_lzmamodule2.py),   *)
(* the one-shot compress/decompress, the sequential file wrapper           *)
(* (_LZMAFile in lzmaffi/__init__.py), the seekable reader                 *)
(* (_SeekableXZFile in lzmaffi/__init__.py) and the engine handles the     *)
(* drivers own (_new_lzma_stream).  Each part has a specification of its   *)
(* own:                                                                    *)
(*   Spec         threads sharing one driver                               *)
(*   SpecFeed     a single caller feeding one driver                       *)
(*   SpecFault    a single caller whose engine may fail                    *)
(*   SpecOneShot  compress(b) and decompress(blob)                         *)
(*   SpecAny      decompress(data) of any bytes                            *)
(*   SpecFile     _LZMAFile open for reading                               *)
(*   SpecHandles  the handles, their owners and the garbage collector      *)
(*   SpecFileAny  _LZMAFile reading whole and truncated sources            *)
(*   SpecSeek     _SeekableXZFile on well-formed and damaged files         *)
(*   SpecOpen     LZMAFile() and the index construction, pass by pass      *)
(*   SpecLife     every method of both file classes, from open to close    *)
(*                                                                         *)
(* liblzma itself is not part of the repository.  It is modelled by a      *)
(* small token codec that keeps the properties of lzma_code the drivers    *)
(* rely on: input is consumed and output produced through next_in /        *)
(* avail_in / next_out / avail_out, output may stay pending inside the     *)
(* coder when the output buffer is full, the encoder buffers input, the    *)
(* status codes and the ISEQ_* sequencing of lzma_code.                    *)
(*                                                                         *)
(* Bytes are one-character strings.  Buffer sizes are scaled down          *)
(* (BUFSIZ 8192 -> 3, growth segment 512 -> 2, _BUFFER_SIZE 8192 -> 3) so  *)
(* that buffer growth happens on inputs of a few bytes.                    *)
(***************************************************************************)
EXTENDS Integers, Sequences, FiniteSets, TLC

\* drv   the driver object threads share (LZMACompressor or LZMADecompressor)
\* lock  self.lock: 0 when free, else the thread holding it
\* th    each thread's position in its call and the call's locals
\* wire  the caller's bytes not yet passed to a call
\* hist  what happened so far, for the properties
\* os    the one-shot compress / decompress under way
\* file  the sequential file wrapper (_LZMAFile) and its source
\* heap  the engine handles made by _new_lzma_stream and who refers to them
\* xz    the seekable reader (_SeekableXZFile) and its file
VARIABLES drv, lock, th, wire, hist, os, file, heap, xz

\* ---------------------------------------------------------------- bounds
\* Longest plain byte sequence a single caller compresses, or a stream holds.
MaxLen == 4
\* Calls a single caller makes on its driver.
MaxCalls == 3
\* Longest plain byte sequence where threads share the driver.
ThreadLen == 1
\* Calls made on the shared driver, over all threads.
ThreadCalls == 3
\* Threads sharing one driver.
NThreads == 2

\* ------------------------------------------------------ program constants
\* BUFSIZ = 8192 in _decompress and _compress, scaled.
BUFSIZ == 3
\* siz = 512, the size of every later output segment, scaled.
SEGSIZ == 2

\* ------------------------------------------------------------------ bytes
\* Plain (uncompressed) bytes.
Data == {"a", "b"}
\* ffi.new('char[]', n) is zero-initialised.
Pad == "0"
\* The toy container: a stream is a header byte, tokens and an end marker.
\* A token is a literal byte or a run token standing for two equal bytes.
Run(x) == IF x = "a" THEN "A" ELSE "B"
IsRun(t) == t \in {"A", "B"}
RunOf(t) == IF t = "A" THEN "a" ELSE "b"
EOS == "E"
\* Header of the indexed container, one per integrity check kind.
CHECK_NONE == "none"
CHECK_CRC32 == "crc32"
CHECK_CRC64 == "crc64"
CHECK_UNKNOWN == "unknown"
HdrXZ(check) == IF check = CHECK_NONE THEN "n" ELSE IF check = CHECK_CRC32 THEN "c" ELSE "x"
IsHdrXZ(t) == t \in {"n", "c", "x"}
CheckOf(t) == IF t = "n" THEN CHECK_NONE ELSE IF t = "c" THEN CHECK_CRC32 ELSE CHECK_CRC64
\* Header of the legacy single-stream format.
HdrAlone == "l"
\* A byte that is no token of either format.
Junk == "z"

FORMAT_AUTO == "auto"
FORMAT_XZ == "xz"
FORMAT_ALONE == "alone"
FORMAT_RAW == "raw"
\* One block of the indexed container, its header given apart.
FORMAT_BLOCK == "block"

\* The integrity-check field that ends a block: none, one word (CRC32) or
\* two words (CRC64).
CheckCells(check) ==
    IF check = CHECK_CRC32 THEN <<"q">>
    ELSE IF check = CHECK_CRC64 THEN <<"Q", "Q">>
    ELSE <<>>

LZMA_RUN == "RUN"
LZMA_FINISH == "FINISH"

\* ---------------------------------------------------------------- helpers
RECURSIVE Concat(_)
Concat(ss) == IF ss = <<>> THEN <<>> ELSE Head(ss) \o Concat(Tail(ss))

Take(s, n) == SubSeq(s, 1, IF n < Len(s) THEN n ELSE Len(s))
Drop(s, n) == SubSeq(s, n + 1, Len(s))

\* F applied to the value of v, with v evaluated once: a local variable of the
\* code set once and then read.
With(v, F(_)) == CHOOSE r \in {F(x) : x \in {v}} : TRUE

\* All sequences over S of length at most n.
RECURSIVE SeqsUpTo(_, _)
SeqsUpTo(S, n) ==
    IF n = 0 THEN {<<>>}
    ELSE LET shorter == SeqsUpTo(S, n - 1)
         IN shorter \cup {Append(s, x) : s \in {t \in shorter : Len(t) = n - 1}, x \in S}

\* ------------------------------------------------------- the codec engine
\* lzma_stream.internal: the coder behind one engine handle.
\*   seq              ISEQ_RUN / ISEQ_FINISH / ISEQ_END / ISEQ_ERROR
\*   allow_buf_error  a second call in a row without progress is LZMA_BUF_ERROR
\*   pend             output produced by the coder and not yet written out
\*   held             (encoder) an input byte buffered for the next token
\*   fmt              (decoder) the format read from the header, "" before it
\*   sawEnd           the end marker was written (encoder) or read (decoder)
\*   want             (block decoder) the words of the check field still to read
NoEngine == [kind |-> "none", seq |-> "run", allow_buf_error |-> FALSE,
             pend |-> <<>>, held |-> <<>>, fmt |-> "", accept |-> "",
             sawEnd |-> FALSE, check |-> CHECK_UNKNOWN, want |-> <<>>]

\* lzma_easy_encoder: the stream header is the first output.
lzma_easy_encoder(check) ==
    [NoEngine EXCEPT !.kind = "enc", !.fmt = FORMAT_XZ, !.check = check,
                     !.pend = <<HdrXZ(check)>>]

\* lzma_auto_decoder / lzma_stream_decoder / lzma_alone_decoder
lzma_decoder(format) ==
    [NoEngine EXCEPT !.kind = "dec", !.accept = format]

\* lzma_block_decoder: the block header was decoded beforehand and the check
\* kind is the one the caller gives.
lzma_block_decoder(check) ==
    [NoEngine EXCEPT !.kind = "dec", !.accept = FORMAT_BLOCK, !.fmt = FORMAT_BLOCK,
                     !.check = check]

\* The encoder's work inside one lzma_code call: write pending output while
\* there is room, buffer input bytes into tokens, and on FINISH close the stream.
RECURSIVE EncCode(_, _, _, _, _)
\* The encoder goes on from the state given.
EncGo(e, in, out, room, action) ==
    With([e |-> e, in |-> in, out |-> out, room |-> room],
         LAMBDA s : EncCode(s.e, s.in, s.out, s.room, action))

EncCode(e, in, out, room, action) ==
    IF e.pend # <<>>
    THEN IF room > 0
         THEN EncGo([e EXCEPT !.pend = Tail(@)], in, Append(out, Head(e.pend)),
                    room - 1, action)
         ELSE [e |-> e, in |-> in, out |-> out, ret |-> "LZMA_OK"]
    ELSE IF in # <<>>
    THEN LET x == Head(in)
         IN IF e.held = <<>>
            THEN EncGo([e EXCEPT !.held = <<x>>], Tail(in), out, room, action)
            ELSE IF e.held[1] = x
            THEN EncGo([e EXCEPT !.held = <<>>, !.pend = <<Run(x)>>],
                       Tail(in), out, room, action)
            ELSE EncGo([e EXCEPT !.held = <<x>>, !.pend = <<e.held[1]>>],
                       Tail(in), out, room, action)
    ELSE IF action = LZMA_FINISH
    THEN IF ~e.sawEnd
         THEN EncGo([e EXCEPT !.pend = e.held \o <<EOS>>, !.held = <<>>,
                              !.sawEnd = TRUE], in, out, room, action)
         ELSE [e |-> e, in |-> in, out |-> out, ret |-> "LZMA_STREAM_END"]
    ELSE [e |-> e, in |-> in, out |-> out, ret |-> "LZMA_OK"]

\* Whether the decoder created for `accept` takes a stream starting with header t.
AcceptsHeader(accept, t) ==
    \/ IsHdrXZ(t) /\ accept \in {FORMAT_AUTO, FORMAT_XZ}
    \/ t = HdrAlone /\ accept \in {FORMAT_AUTO, FORMAT_ALONE}

\* The decoder's work inside one lzma_code call.  A token is read only when
\* no output is pending.  The header of the indexed container is reported
\* at once (LZMA_TELL_ANY_CHECK | LZMA_TELL_NO_CHECK).  In the indexed
\* container the end of the stream (index and footer) follows the last
\* block, so it is read only after all output was written; the legacy
\* format's range decoder reads ahead, so its end marker is consumed with
\* the last token, before that token's output is written.  A block ends with
\* its check field, which must be the one of the check kind the decoder was
\* created for.
RECURSIVE DecCode(_, _, _, _)
\* The decoder goes on from the state given.
DecGo(e, in, out, room) ==
    With([e |-> e, in |-> in, out |-> out, room |-> room],
         LAMBDA s : DecCode(s.e, s.in, s.out, s.room))

DecCode(e, in, out, room) ==
    IF e.pend # <<>>
    THEN IF room > 0
         THEN DecGo([e EXCEPT !.pend = Tail(@)], in, Append(out, Head(e.pend)), room - 1)
         ELSE [e |-> e, in |-> in, out |-> out, ret |-> "LZMA_OK"]
    ELSE IF e.sawEnd
    THEN [e |-> e, in |-> in, out |-> out, ret |-> "LZMA_STREAM_END"]
    ELSE IF in = <<>>
    THEN [e |-> e, in |-> in, out |-> out, ret |-> "LZMA_OK"]
    ELSE LET t == Head(in)
         IN IF e.fmt = ""
            THEN IF ~AcceptsHeader(e.accept, t)
                 THEN [e |-> e, in |-> in, out |-> out, ret |-> "LZMA_FORMAT_ERROR"]
                 ELSE IF IsHdrXZ(t)
                 THEN [e |-> [e EXCEPT !.fmt = FORMAT_XZ, !.check = CheckOf(t)],
                       in |-> Tail(in), out |-> out,
                       ret |-> IF CheckOf(t) = CHECK_NONE THEN "LZMA_NO_CHECK"
                                                           ELSE "LZMA_GET_CHECK"]
                 ELSE IF e.accept = FORMAT_AUTO
                 THEN [e |-> [e EXCEPT !.fmt = FORMAT_ALONE, !.check = CHECK_NONE],
                       in |-> Tail(in), out |-> out, ret |-> "LZMA_NO_CHECK"]
                 ELSE DecGo([e EXCEPT !.fmt = FORMAT_ALONE, !.check = CHECK_NONE],
                            Tail(in), out, room)
            ELSE IF e.want # <<>>
            THEN IF t = Head(e.want)
                 THEN DecGo([e EXCEPT !.want = Tail(@), !.sawEnd = Len(e.want) = 1],
                            Tail(in), out, room)
                 ELSE [e |-> e, in |-> in, out |-> out, ret |-> "LZMA_DATA_ERROR"]
            ELSE IF t = EOS
            THEN IF e.fmt = FORMAT_BLOCK /\ CheckCells(e.check) # <<>>
                 THEN DecGo([e EXCEPT !.want = CheckCells(e.check)],
                            Tail(in), out, room)
                 ELSE DecGo([e EXCEPT !.sawEnd = TRUE], Tail(in), out, room)
            ELSE IF t \in Data \/ IsRun(t)
            THEN LET bytes == IF IsRun(t) THEN <<RunOf(t), RunOf(t)>> ELSE <<t>>
                     ahead == e.fmt = FORMAT_ALONE /\ Len(in) > 1 /\ in[2] = EOS
                 IN DecGo([e EXCEPT !.pend = bytes, !.sawEnd = ahead],
                          IF ahead THEN Tail(Tail(in)) ELSE Tail(in), out, room)
            ELSE [e |-> e, in |-> in, out |-> out, ret |-> "LZMA_DATA_ERROR"]

IsFatal(ret) ==
    ret \notin {"LZMA_OK", "LZMA_STREAM_END", "LZMA_NO_CHECK", "LZMA_GET_CHECK",
                "LZMA_BUF_ERROR"}

\* lzma_code(strm, action): the sequencing of liblzma's common code around the
\* coder.  `fault` is an allocation failure inside the library (LZMA_MEM_ERROR).
\* The result holds the engine, the input left (next_in, avail_in), the bytes
\* written at next_out and the status.
lzma_code(e, in, room, action, fault) ==
    IF e.seq = "error" \/ (e.seq = "finish" /\ action # LZMA_FINISH)
    THEN [e |-> [e EXCEPT !.seq = "error"], in |-> in, out |-> <<>>,
          ret |-> "LZMA_PROG_ERROR"]
    ELSE IF e.seq = "end"
    THEN [e |-> e, in |-> in, out |-> <<>>, ret |-> "LZMA_STREAM_END"]
    ELSE IF fault
    THEN [e |-> [e EXCEPT !.seq = "error"], in |-> in, out |-> <<>>,
          ret |-> "LZMA_MEM_ERROR"]
    ELSE LET e1 == IF action = LZMA_FINISH THEN [e EXCEPT !.seq = "finish"] ELSE e
         IN With(IF e.kind = "enc" THEN EncCode(e1, in, <<>>, room, action)
                                   ELSE DecCode(e1, in, <<>>, room),
                 LAMBDA r :
                    IF r.ret = "LZMA_OK"
                    THEN IF r.in # in \/ r.out # <<>>
                         THEN [r EXCEPT !.e.allow_buf_error = FALSE]
                         ELSE IF e.allow_buf_error
                         THEN [r EXCEPT !.ret = "LZMA_BUF_ERROR"]
                         ELSE [r EXCEPT !.e.allow_buf_error = TRUE]
                    ELSE IF r.ret = "LZMA_STREAM_END"
                    THEN [r EXCEPT !.e.seq = "end"]
                    ELSE IF IsFatal(r.ret)
                    THEN [r EXCEPT !.e.seq = "error"]
                    ELSE [r EXCEPT !.e.allow_buf_error = FALSE])

\* ------------------------------------------------------------ the drivers
\* A slip: LZMA_BUF_ERROR ("no progress is possible") taken for a status.
catch_lzma_error_buf_ok(ret) ==
    ret \in {"LZMA_OK", "LZMA_GET_CHECK", "LZMA_NO_CHECK", "LZMA_STREAM_END",
             "LZMA_BUF_ERROR"}

\* catch_lzma_error: the statuses returned to the caller; any other raises.
catch_lzma_error(ret) ==
    ret \in {"LZMA_OK", "LZMA_GET_CHECK", "LZMA_NO_CHECK", "LZMA_STREAM_END"}

\* lzma_get_check(lzs)
lzma_get_check(e) == e.check

\* A driver object.  kind "comp": LZMACompressor {lzs, flushed};
\* kind "decomp": LZMADecompressor {lzs, check, unused_data, eof}.
\* The lock is a state variable of its own where threads share the driver.
LZMACompressorInit(check) ==
    [kind |-> "comp", lzs |-> lzma_easy_encoder(check), flushed |-> FALSE,
     eof |-> FALSE, unused_data |-> <<>>, check |-> CHECK_UNKNOWN]

LZMADecompressorInit(format) ==
    [kind |-> "decomp", lzs |-> lzma_decoder(format), flushed |-> FALSE,
     eof |-> FALSE, unused_data |-> <<>>,
     check |-> IF format = FORMAT_ALONE THEN CHECK_NONE ELSE CHECK_UNKNOWN]

\* ffi.new('char[]', n)
NewBuf(n) == [i \in 1..n |-> Pad]

\* The locals of one _compress / _decompress call.
\*   next_in    the input not yet consumed (lzs.next_in, lzs.avail_in)
\*   outs       the output segments; lzs.next_out points into the last one
\*   avail_out  lzs.avail_out
\*   siz        the size the code takes the last segment to have
\*   st         "loop" while in the while-loop, then "break" or "raise"
\* and, for the properties, what the engine did during the call:
\*   produced   the bytes the engine wrote, in order
\*   steps      the number of lzma_code calls
\*   lastret    the status of the last lzma_code call
NewFrame(data, action) ==
    [next_in |-> data, outs |-> <<NewBuf(BUFSIZ)>>, avail_out |-> BUFSIZ,
     siz |-> BUFSIZ, action |-> action, st |-> "loop",
     produced |-> <<>>, steps |-> 0, lastret |-> ""]

NoFrame == [NewFrame(<<>>, LZMA_RUN) EXCEPT !.st = "none", !.outs = <<>>,
                                            !.avail_out = 0, !.siz = 0]

\* The engine writes `bytes` at lzs.next_out, inside the last segment.
Store(outs, avail_out, bytes) ==
    LET n == Len(outs)
        at == Len(outs[n]) - avail_out
    IN [outs EXCEPT ![n] = [i \in 1..Len(outs[n]) |->
            IF i > at /\ i <= at + Len(bytes) THEN bytes[i - at] ELSE outs[n][i]]]

\* The frame after lzma_code returned r.
AfterCode(f, r) ==
    [f EXCEPT !.next_in = r.in,
              !.outs = Store(f.outs, f.avail_out, r.out),
              !.avail_out = @ - Len(r.out),
              !.produced = @ \o r.out,
              !.steps = @ + 1,
              !.lastret = r.ret]

\* A slip: the new segment takes the place of the full one.
GrowInPlace(f) ==
    [f EXCEPT !.siz = SEGSIZ, !.outs = [@ EXCEPT ![Len(@)] = NewBuf(SEGSIZ)],
              !.avail_out = SEGSIZ]

\* "ran out of space in the output buffer": siz = 512; outs.append(...)
Grow(f) ==
    [f EXCEPT !.siz = SEGSIZ, !.outs = Append(@, NewBuf(SEGSIZ)),
              !.avail_out = SEGSIZ]

\* A slip: the last unconsumed byte is not saved.
SaveUnusedButOne(unused_data, next_in) ==
    IF Len(next_in) > 1 THEN next_in ELSE unused_data

\* if lzs.avail_in > 0: self.unused_data = ffi.buffer(lzs.next_in, lzs.avail_in)[:]
SaveUnused(unused_data, next_in) ==
    IF Len(next_in) > 0 THEN next_in ELSE unused_data

\* elif lzs.avail_in == 0: break   ("it ate everything")
DecompressBreaks(avail_in, avail_out) == avail_in = 0

\* One pass of the while-loop of LZMADecompressor._decompress.
DecompressIter(d, f, fault) ==
    With(lzma_code(d.lzs, f.next_in, f.avail_out, LZMA_RUN, fault), LAMBDA r :
        LET f1 == AfterCode(f, r)
            d1 == [d EXCEPT !.lzs = r.e]
        IN IF ~catch_lzma_error(r.ret)
           THEN [d |-> d1, f |-> [f1 EXCEPT !.st = "raise"]]
           ELSE LET d2 == IF r.ret \in {"LZMA_NO_CHECK", "LZMA_GET_CHECK"}
                          THEN [d1 EXCEPT !.check = lzma_get_check(r.e)] ELSE d1
                IN IF r.ret = "LZMA_STREAM_END"
                   THEN [d |-> [d2 EXCEPT !.eof = TRUE,
                                          !.unused_data = SaveUnused(@, f1.next_in)],
                         f |-> [f1 EXCEPT !.st = "break"]]
                   ELSE IF DecompressBreaks(Len(f1.next_in), f1.avail_out)
                   THEN [d |-> d2, f |-> [f1 EXCEPT !.st = "break"]]
                   ELSE IF f1.avail_out = 0
                   THEN [d |-> d2, f |-> Grow(f1)]
                   ELSE [d |-> d2, f |-> f1])

\* if (action == RUN and lzs.avail_in == 0) or (action == FINISH and ret == STREAM_END)
CompressBreaks(action, avail_in, ret) ==
    \/ action = LZMA_RUN /\ avail_in = 0
    \/ action = LZMA_FINISH /\ ret = "LZMA_STREAM_END"

\* A slip: a call that fails takes the flushed mark back.
CompressIterUnmarksOnError(d, f, fault) ==
    With(lzma_code(d.lzs, f.next_in, f.avail_out, f.action, fault), LAMBDA r :
        LET f1 == AfterCode(f, r)
            d1 == [d EXCEPT !.lzs = r.e]
        IN IF ~catch_lzma_error(r.ret)
           THEN [d |-> [d1 EXCEPT !.flushed = FALSE], f |-> [f1 EXCEPT !.st = "raise"]]
           ELSE IF CompressBreaks(f.action, Len(f1.next_in), r.ret)
           THEN [d |-> d1, f |-> [f1 EXCEPT !.st = "break"]]
           ELSE IF f1.avail_out = 0
           THEN [d |-> d1, f |-> Grow(f1)]
           ELSE [d |-> d1, f |-> f1])

\* One pass of the while-loop of LZMACompressor._compress.
CompressIter(d, f, fault) ==
    With(lzma_code(d.lzs, f.next_in, f.avail_out, f.action, fault), LAMBDA r :
        LET f1 == AfterCode(f, r)
            d1 == [d EXCEPT !.lzs = r.e]
        IN IF ~catch_lzma_error(r.ret)
           THEN [d |-> d1, f |-> [f1 EXCEPT !.st = "raise"]]
           ELSE IF CompressBreaks(f.action, Len(f1.next_in), r.ret)
           THEN [d |-> d1, f |-> [f1 EXCEPT !.st = "break"]]
           ELSE IF f1.avail_out = 0
           THEN [d |-> d1, f |-> Grow(f1)]
           ELSE [d |-> d1, f |-> f1])

Iter(d, f, fault) ==
    IF d.kind = "comp" THEN CompressIter(d, f, fault) ELSE DecompressIter(d, f, fault)

\* A slip: the last segment cut as if it had the first segment's size.
LastOutPieceOfFirstSize(last_out, siz, avail_out) ==
    IF BUFSIZ - avail_out > 0 THEN Take(last_out, BUFSIZ - avail_out) ELSE <<>>

\* last_out_piece = ffi.buffer(last_out[0:siz-lzs.avail_out])[:]
LastOutPiece(last_out, siz, avail_out) == Take(last_out, siz - avail_out)

\* last_out = outs.pop(); return b''.join(outs) + last_out_piece
JoinOuts(f) ==
    LET n == Len(f.outs)
    IN Concat(SubSeq(f.outs, 1, n - 1)) \o LastOutPiece(f.outs[n], f.siz, f.avail_out)

\* A slip: decompress() without its eof guard.
UseAfterFinishUnguardedEof(d, op) ==
    IF op = "decompress" THEN FALSE ELSE d.flushed

\* A slip: compress() without its flushed guard.
UseAfterFinishFlushOnly(d, op) ==
    IF op = "decompress" THEN d.eof ELSE op = "flush" /\ d.flushed

\* if self.eof: raise EOFError / if self.flushed: raise ValueError
UseAfterFinish(d, op) ==
    IF op = "decompress" THEN d.eof ELSE d.flushed

\* What the guard raises.
GuardError(op) == IF op = "decompress" THEN "EOFError" ELSE "ValueError"

\* A slip: flush() does not record that it ran.
MarkFlushedNever(d, op) == d

\* flush: self.flushed = 1, before _compress(b'', action=LZMA_FINISH)
MarkFlushed(d, op) == IF op = "flush" THEN [d EXCEPT !.flushed = TRUE] ELSE d

ActionOf(op) == IF op = "flush" THEN LZMA_FINISH ELSE LZMA_RUN

\* The while-loop run to its end.
RECURSIVE RunLoop(_, _)
RunLoop(d, f) ==
    IF f.st # "loop" THEN [d |-> d, f |-> f]
    ELSE With(Iter(d, f, FALSE), LAMBDA n : RunLoop(n.d, n.f))

\* One whole call of compress / flush / decompress by a single caller:
\* the driver after it, the bytes returned and the exception raised ("" if none).
DriverCall(d, op, data) ==
    IF UseAfterFinish(d, op)
    THEN [d |-> d, out |-> <<>>, exc |-> GuardError(op), f |-> NoFrame]
    ELSE With(RunLoop(MarkFlushed(d, op), NewFrame(data, ActionOf(op))), LAMBDA r :
            IF r.f.st = "raise"
            THEN [d |-> r.d, out |-> <<>>, exc |-> "LZMAError", f |-> r.f]
            ELSE [d |-> r.d, out |-> JoinOuts(r.f), exc |-> "", f |-> r.f])

\* compress(data): comp.compress(data) + comp.flush()
compress(data, check) ==
    With(DriverCall(LZMACompressorInit(check), "compress", data), LAMBDA c1 :
        IF c1.exc # "" THEN [out |-> <<>>, exc |-> c1.exc]
        ELSE With(DriverCall(c1.d, "flush", <<>>), LAMBDA c2 :
                IF c2.exc # "" THEN [out |-> <<>>, exc |-> c2.exc]
                ELSE [out |-> c1.out \o c2.out, exc |-> ""]))

\* A slip: bytes left after a stream are taken for the end of the data.
MoreStreamsNever(unused_data) == FALSE

\* "if not decomp.unused_data: return b"".join(results)", else go on with
\* the next stream
MoreStreams(unused_data) == unused_data # <<>>

\* A slip: "data = decomp.unused_data" is left out, the next decompressor is
\* fed the same bytes again.
decompressStreamSameData(data, format, results) ==
    With(DriverCall(LZMADecompressorInit(format), "decompress", data), LAMBDA r :
        LET res == Append(results, r.out)
        IN IF r.exc # ""
           THEN [st |-> "raise", d |-> r.d, data |-> data, results |-> results,
                 out |-> <<>>, exc |-> r.exc]
           ELSE IF ~r.d.eof
           THEN [st |-> "raise", d |-> r.d, data |-> data, results |-> res,
                 out |-> <<>>, exc |-> "LZMAError"]
           ELSE IF ~MoreStreams(r.d.unused_data)
           THEN [st |-> "return", d |-> r.d, data |-> data, results |-> res,
                 out |-> Concat(res), exc |-> ""]
           ELSE [st |-> "next", d |-> r.d, data |-> data, results |-> res,
                 out |-> <<>>, exc |-> ""])

\* One pass of the loop of decompress(data): a fresh decompressor is fed
\* `data`; `results` are the pieces of the streams before.
\*   st  "raise", "return", or "next" when another stream follows
decompressStream(data, format, results) ==
    With(DriverCall(LZMADecompressorInit(format), "decompress", data), LAMBDA r :
        LET res == Append(results, r.out)
        IN IF r.exc # ""
           THEN [st |-> "raise", d |-> r.d, data |-> data, results |-> results,
                 out |-> <<>>, exc |-> r.exc]
           ELSE IF ~r.d.eof
           THEN [st |-> "raise", d |-> r.d, data |-> data, results |-> res,
                 out |-> <<>>, exc |-> "LZMAError"]
           ELSE IF ~MoreStreams(r.d.unused_data)
           THEN [st |-> "return", d |-> r.d, data |-> data, results |-> res,
                 out |-> Concat(res), exc |-> ""]
           ELSE [st |-> "next", d |-> r.d, data |-> r.d.unused_data, results |-> res,
                 out |-> <<>>, exc |-> ""])

\* decompress(data): the loop run to its end.
RECURSIVE decompressFrom(_, _, _)
decompressFrom(data, format, results) ==
    With(decompressStream(data, format, results), LAMBDA n :
        IF n.st = "next" THEN decompressFrom(n.data, format, n.results)
        ELSE [out |-> n.out, exc |-> n.exc])

decompress(data, format) == decompressFrom(data, format, <<>>)

\* -------------------------------------------------- the container format
\* What a stream of the toy container holds: the tokens of `data` in one of
\* the tokenisations the format allows (a run token for each pair of equal
\* neighbours, read from the left, as the encoder writes them).
RECURSIVE Tokens(_)
Tokens(data) ==
    IF Len(data) = 0 THEN <<>>
    ELSE IF Len(data) > 1 /\ data[1] = data[2]
    THEN <<Run(data[1])>> \o Tokens(Tail(Tail(data)))
    ELSE <<data[1]>> \o Tokens(Tail(data))

\* A complete stream holding `data`.
Stream(fmt, data) ==
    <<IF fmt = FORMAT_ALONE THEN HdrAlone ELSE HdrXZ(CHECK_CRC64)>>
        \o Tokens(data) \o <<EOS>>

\* ------------------------------------------- threads sharing one driver
driverVars == <<drv, lock, th, wire, hist>>
vars == <<drv, lock, th, wire, hist, os, file, heap, xz>>
\* The variables a specification leaves alone when it is not about them.
Unused == [phase |-> "off"]

\* The threads sharing the driver; a single caller is thread 1.
Threads == 1..NThreads

\* Three longer plain sequences, a a b a a b ..., whose output takes more than
\* one growth segment.
LongPlain(n) ==
    IF n < BUFSIZ THEN {}
    ELSE {[i \in 1..m |-> IF i % 3 = 0 THEN "b" ELSE "a"] : m \in (n + 1)..(n + 3)}

\* Bytes that may follow a complete stream.
Trailers == {<<>>, <<Junk>>, <<HdrXZ(CHECK_CRC32), "b", EOS>>}

\* What a caller may feed a decompressor: a complete stream of either format
\* and what follows it, or bytes that are no stream.
DecWires(n) ==
    {Stream(fmt, d) \o tr : fmt \in {FORMAT_XZ, FORMAT_ALONE},
                            d \in SeqsUpTo(Data, n) \cup LongPlain(n), tr \in Trailers}
        \cup {<<Junk>>, <<HdrXZ(CHECK_NONE), "a", Junk>>}

\* What a caller may feed a compressor.
CompWires(n) == SeqsUpTo(Data, n) \cup LongPlain(n)

\* entry: whether the driver was already finished (eof / flushed) when the
\* call took the lock.
\* snap: the driver as it was when the call took the lock (kept for such a call).
IdleThread == [pc |-> "idle", op |-> "", data |-> <<>>, f |-> NoFrame, exc |-> "",
               entry |-> FALSE, snap |-> <<>>]

\* fed: the bytes passed to the engine, in the order of the calls;
\* nfinish: the calls in which the engine was given LZMA_FINISH;
\* ncalls: the calls made.
NoHist == [fed |-> <<>>, nfinish |-> 0, ncalls |-> 0]

InitWith(n) ==
    /\ \/ drv = LZMACompressorInit(CHECK_CRC64) /\ wire \in CompWires(n)
       \/ drv = LZMADecompressorInit(FORMAT_AUTO) /\ wire \in DecWires(n)
    /\ lock = 0
    /\ th = [t \in Threads |-> IdleThread]
    /\ hist = NoHist
    /\ os = Unused
    /\ file = Unused
    /\ heap = Unused
    /\ xz = Unused

Init == InitWith(ThreadLen)

OpsOf(kind) == IF kind = "comp" THEN {"compress", "flush"} ELSE {"decompress"}

\* A thread calls compress(chunk), flush() or decompress(chunk); the chunk is
\* any number of the bytes the caller has left.
CallWithin(t, max) ==
    /\ th[t].pc = "idle"
    /\ hist.ncalls < max
    /\ \E op \in OpsOf(drv.kind) :
         \E k \in IF op = "flush" THEN {0} ELSE 0..Len(wire) :
            /\ th' = [th EXCEPT ![t] = [IdleThread EXCEPT !.pc = "lock", !.op = op,
                                                          !.data = Take(wire, k)]]
            /\ wire' = Drop(wire, k)
    /\ hist' = [hist EXCEPT !.ncalls = @ + 1]
    /\ UNCHANGED <<drv, lock, os, file, heap, xz>>

Call(t) == CallWithin(t, ThreadCalls)

\* A slip: no lock around the call.
LockNeverHeld(l) == TRUE

\* threading.Lock: it can be taken when no thread holds it.
LockFree(l) == l = 0

\* Whether the driver has reached its terminal condition: a decompressor at
\* eof, a compressor flushed.
Finished(d) == IF d.kind = "comp" THEN d.flushed ELSE d.eof

\* "with self.lock:", the guard and the set-up of _compress / _decompress,
\* up to the first pass of the loop.
Enter(t) ==
    /\ th[t].pc = "lock"
    /\ LockFree(lock)
    /\ lock' = t
    /\ IF UseAfterFinish(drv, th[t].op)
       THEN /\ th' = [th EXCEPT ![t].pc = "ret", ![t].exc = GuardError(th[t].op),
                                ![t].entry = Finished(drv),
                                ![t].snap = IF Finished(drv) THEN <<drv>> ELSE <<>>]
            /\ UNCHANGED <<drv, hist, xz>>
       ELSE /\ drv' = MarkFlushed(drv, th[t].op)
            /\ th' = [th EXCEPT ![t].pc = "loop",
                                ![t].f = NewFrame(th[t].data, ActionOf(th[t].op)),
                                ![t].entry = Finished(drv),
                                ![t].snap = IF Finished(drv) THEN <<drv>> ELSE <<>>]
            /\ hist' = [hist EXCEPT !.fed = @ \o th[t].data]
    /\ UNCHANGED <<wire, os, file, heap, xz>>

\* One pass of the while-loop: one lzma_code call and what the code does with it.
Step(t) ==
    /\ th[t].pc = "loop"
    /\ \E n \in {Iter(drv, th[t].f, FALSE)} :
          /\ drv' = n.d
          /\ th' = [th EXCEPT ![t].f = n.f,
                              ![t].pc = IF n.f.st = "loop" THEN "loop" ELSE "ret",
                              ![t].exc = IF n.f.st = "raise" THEN "LZMAError" ELSE ""]
          /\ hist' = IF th[t].f.action = LZMA_FINISH /\ th[t].f.steps = 0
                     THEN [hist EXCEPT !.nfinish = @ + 1] ELSE hist
    /\ UNCHANGED <<lock, wire, os, file, heap, xz>>

\* Leaving the with-block, by return or by exception, releases the lock.
LockAfterExit(l, st) == 0

\* The call returns its bytes or raises.
Exit(t) ==
    /\ th[t].pc = "ret"
    /\ lock' = LockAfterExit(lock, th[t].f.st)
    /\ th' = [th EXCEPT ![t] = IdleThread]
    /\ UNCHANGED <<drv, wire, hist, os, file, heap, xz>>

Next == \E t \in Threads : Call(t) \/ Enter(t) \/ Step(t) \/ Exit(t)

Spec == Init /\ [][Next]_vars

\* ------------------------------------------------------- a single caller
FeedInit == InitWith(MaxLen)

FeedCall == CallWithin(1, MaxCalls)

FeedNext == FeedCall \/ Enter(1) \/ Step(1) \/ Exit(1)

SpecFeed == FeedInit /\ [][FeedNext]_vars

\* ------------------------------------- a single caller, an engine that fails
\* Longest input of the caller whose engine may fail.
FaultLen == 3

FaultInit == InitWith(FaultLen)

\* One pass of the while-loop in which lzma_code fails inside the library
\* (LZMA_MEM_ERROR).
StepFault(t) ==
    /\ th[t].pc = "loop"
    /\ \E n \in {Iter(drv, th[t].f, TRUE)} :
          /\ drv' = n.d
          /\ th' = [th EXCEPT ![t].f = n.f,
                              ![t].pc = IF n.f.st = "loop" THEN "loop" ELSE "ret",
                              ![t].exc = IF n.f.st = "raise" THEN "LZMAError" ELSE ""]
          /\ hist' = IF th[t].f.action = LZMA_FINISH /\ th[t].f.steps = 0
                     THEN [hist EXCEPT !.nfinish = @ + 1] ELSE hist
    /\ UNCHANGED <<lock, wire, os, file, heap, xz>>

FaultNext == FeedCall \/ Enter(1) \/ Step(1) \/ StepFault(1) \/ Exit(1)

SpecFault == FaultInit /\ [][FaultNext]_vars

\* ------------------------------------------- one-shot compress / decompress
\* Streams in one concatenated input.
MaxStreams == 2
\* Longest plain byte sequence of a stream that is one of several.
StreamLen == 2

\* The plain byte sequences to compress: one of any length up to MaxLen, or
\* several short or long ones.
OneShotInputs ==
    {<<b>> : b \in SeqsUpTo(Data, MaxLen) \cup LongPlain(MaxLen)}
        \cup UNION {[1..k -> SeqsUpTo(Data, StreamLen) \cup LongPlain(MaxLen)] :
                        k \in 2..MaxStreams}

\*   inputs   the plain byte sequences
\*   blobs    compress(b) of the inputs so far
\*   data     the local `data` of decompress()
\*   results  the local `results` of decompress()
\*   out      what decompress() returned
\*   exc      the exception raised, "" if none
\*   ndec     the decompressors constructed
\* drv is the driver in use (comp after compress(), decomp in decompress()).
OneShotInit ==
    /\ os \in {[phase |-> "compress", inputs |-> in, blobs |-> <<>>, data |-> <<>>,
                 results |-> <<>>, out |-> <<>>, exc |-> "", ndec |-> 0] :
                    in \in OneShotInputs}
    /\ drv = Unused
    /\ lock = 0
    /\ th = Unused
    /\ wire = <<>>
    /\ hist = Unused
    /\ file = Unused
    /\ heap = Unused
    /\ xz = Unused

\* compress(b) of the next input: comp.compress(data) + comp.flush().  When all
\* are compressed, decompress() is called on their concatenation.
OneShotCompress ==
    /\ os.phase = "compress"
    /\ \E c \in {compress(os.inputs[Len(os.blobs) + 1], CHECK_CRC64)} :
          LET bl == Append(os.blobs, c.out)
          IN os' = IF c.exc # "" THEN [os EXCEPT !.phase = "done", !.exc = c.exc]
                   ELSE IF Len(bl) < Len(os.inputs) THEN [os EXCEPT !.blobs = bl]
                   ELSE [os EXCEPT !.blobs = bl, !.phase = "decompress",
                                   !.data = Concat(bl)]
    /\ UNCHANGED <<drv, lock, th, wire, hist, file, heap, xz>>

\* One pass of the loop of decompress().
OneShotDecompress ==
    /\ os.phase = "decompress"
    /\ \E n \in {decompressStream(os.data, FORMAT_AUTO, os.results)} :
          /\ os' = [os EXCEPT !.phase = IF n.st = "next" THEN "decompress" ELSE "done",
                               !.data = n.data, !.results = n.results,
                               !.out = n.out, !.exc = n.exc, !.ndec = @ + 1]
          /\ drv' = n.d
    /\ UNCHANGED <<lock, th, wire, hist, file, heap, xz>>

OneShotNext == OneShotCompress \/ OneShotDecompress

SpecOneShot == OneShotInit /\ [][OneShotNext]_vars

\* ------------------------------------------- decompress() of any bytes
\* Longest input handed to decompress().
AnyLen == 4

\* The bytes an input is made of: the header of either format, a literal, a
\* run token, the end marker and a byte that is no token.
AnyBytes == {HdrXZ(CHECK_CRC64), HdrAlone, "a", Run("a"), EOS, Junk}

\* decompress(data) called on any finite byte string, the empty one included.
\* inputs holds the argument of the call.
AnyInit ==
    /\ os \in {[phase |-> "decompress", inputs |-> <<data>>, blobs |-> <<>>,
                 data |-> data, results |-> <<>>, out |-> <<>>, exc |-> "",
                 ndec |-> 0] : data \in SeqsUpTo(AnyBytes, AnyLen)}
    /\ drv = Unused
    /\ lock = 0
    /\ th = Unused
    /\ wire = <<>>
    /\ hist = Unused
    /\ file = Unused
    /\ heap = Unused
    /\ xz = Unused

AnyNext == OneShotDecompress

\* The loop of decompress() runs in one thread that nothing else stops: a
\* pass that can be taken is taken.
SpecAny == AnyInit /\ [][AnyNext]_vars /\ WF_vars(OneShotDecompress)

\* ------------------------------------------- the sequential file wrapper
\* from io import DEFAULT_BUFFER_SIZE as _BUFFER_SIZE (8192), scaled.
_BUFFER_SIZE == 3
_MODE_CLOSED == 0
_MODE_READ == 1
_MODE_READ_EOF == 2
_MODE_WRITE == 3

\* Longest source file, in bytes.
FileLen == 6
\* Largest size passed to read() and read1().
MaxRead == 2

\* Plain contents of a stream in a file: a...a and abab..., up to n bytes.
PlainSamples(n) ==
    {[i \in 1..m |-> "a"] : m \in 0..n}
        \cup {[i \in 1..m |-> IF i % 2 = 1 THEN "a" ELSE "b"] : m \in 2..n}

\* The source files of at most n bytes: one or more complete streams, of
\* either format, one after the other.
\* `plain` is what the streams hold, `raw` the bytes of the file, `whole`
\* tells that the file ends with the end of a stream.
RECURSIVE FileSources(_)
FileSources(n) ==
    LET one == {s \in {[plain |-> d, raw |-> Stream(fmt, d), whole |-> TRUE] :
                          fmt \in {FORMAT_XZ, FORMAT_ALONE}, d \in PlainSamples(2 * n)} :
                    Len(s.raw) <= n}
    IN one \cup UNION {{[plain |-> s.plain \o t.plain, raw |-> s.raw \o t.raw,
                            whole |-> TRUE] :
                           t \in FileSources(n - Len(s.raw))} : s \in one}

\* The truncated files: a source file cut before the end of its last stream
\* (the empty file is the first stream cut before its header).
TruncatedSources(n) ==
    {c \in {[plain |-> s.plain, raw |-> Take(s.raw, k), whole |-> FALSE] :
                s \in FileSources(n), k \in 0..(n - 1)} :
        \A s \in FileSources(n) : s.raw # c.raw}

\* _LZMAFile.__init__(fp, "r"), with the call under way and what it did so far.
\*   _mode, _pos, _size, _buffer, _decompressor, _init_args, _fp: as in the code;
\*             _buffer is <<>> for None and for b""; _fp is what is left to read
\*   pc        "idle" between calls, "fill" inside _fill_buffer
\*   op, n     the call under way and its size argument
\*   blocks    the local `blocks` of _read_all / _read_block
\*   ret, exc  what the last call returned or raised
\*   got       the bytes read() and read1() returned so far
\*   plain     what the streams of the source hold
\*   whole     the source ends with the end of a stream
\* and, for a file open for writing and for close():
\*   _compressor, _closefp: as in the code
\*   sink      the bytes given to fp.write, call by call
\*   closes    the calls of fp.close()
\*   fail      the call that will raise, if any: "flush" (the compressor's
\*             flush), "write" (fp.write), "close" (fp.close)
\*   res       the number the last call returned (write, tell), -1 if none
\*   taken     the bytes write() was given so far
\*   lost      the number of bytes that calls of read() had taken from the
\*             stream when they raised
LZMAFileInit(src) ==
    [_mode |-> _MODE_READ, _pos |-> 0, _size |-> -1, _buffer |-> <<>>,
     _decompressor |-> LZMADecompressorInit(FORMAT_AUTO), _init_args |-> FORMAT_AUTO,
     _fp |-> src.raw,
     pc |-> "idle", op |-> "", n |-> 0, blocks |-> <<>>, ret |-> <<>>, exc |-> "",
     got |-> <<>>, plain |-> src.plain, whole |-> src.whole,
     _compressor |-> Unused, _closefp |-> FALSE, sink |-> <<>>, closes |-> 0,
     fail |-> "", res |-> -1, taken |-> <<>>, lost |-> 0]

\* _LZMAFile(fp, mode, format, close_fp=close_fp) on the source src, with
\* check, preset and filters left out; format is "None" when left out.  The
\* object, or the object with the exception the constructor raised.
_LZMAFile(src, mode, format, close_fp) ==
    LET F == [LZMAFileInit(src) EXCEPT !._mode = _MODE_CLOSED, !._decompressor = Unused,
                                       !.op = "open"]
    IN IF mode \in {"r", "rb"}
       THEN LET fmt == IF format = "None" THEN FORMAT_AUTO ELSE format
            IN [F EXCEPT !._init_args = fmt,
                         !._decompressor = LZMADecompressorInit(fmt),
                         !._closefp = close_fp,
                         !._mode = _MODE_READ]
       ELSE IF mode \in {"w", "wb", "a", "ab"}
       THEN [F EXCEPT !._compressor = LZMACompressorInit(CHECK_CRC64),
                      !._fp = <<>>,
                      !._closefp = close_fp,
                      !._mode = _MODE_WRITE]
       ELSE [F EXCEPT !.exc = "ValueError"]

\* The call returns `bytes`.
Return(F, bytes) ==
    [F EXCEPT !.pc = "idle", !.ret = bytes, !.exc = "", !.blocks = <<>>,
              !.got = IF F.op = "peek" THEN @ ELSE @ \o bytes]

\* The call raises.
Raise(F, exc) ==
    [F EXCEPT !.pc = "idle", !.ret = <<>>, !.exc = exc, !.blocks = <<>>,
              !.lost = @ + Len(Concat(F.blocks))]

\* _check_not_closed, _check_can_read: the exception raised, "" if none.
_check_can_read(F) ==
    IF F._mode = _MODE_CLOSED THEN "ValueError"
    ELSE IF F._mode \notin {_MODE_READ, _MODE_READ_EOF} THEN "UnsupportedOperation"
    ELSE ""

\* read(size), read1(size), peek() up to the first call of _fill_buffer.
Begin(F, op, size) ==
    LET G == [F EXCEPT !.op = op, !.n = size, !.blocks = <<>>]
    IN IF _check_can_read(G) # "" THEN Raise(G, _check_can_read(G))
       ELSE IF G._mode = _MODE_READ_EOF \/ (op # "peek" /\ size = 0) THEN Return(G, <<>>)
       ELSE [G EXCEPT !.pc = "fill"]

\* What the caller of _fill_buffer does with its result, up to its next call
\* of _fill_buffer or its return: the bodies of the loops of _read_all and
\* _read_block, the rest of read1 and of peek.
Resume(F, ok) ==
    IF F.op = "peek" THEN Return(F, IF ok THEN F._buffer ELSE <<>>)
    ELSE IF ~ok THEN Return(F, Concat(F.blocks))
    ELSE IF F.op = "read" /\ F.n < 0
    THEN [F EXCEPT !.blocks = Append(@, F._buffer), !._pos = @ + Len(F._buffer),
                   !._buffer = <<>>]
    ELSE LET whole == IF F.op = "read" THEN ~(F.n < Len(F._buffer))
                      ELSE ~(0 < F.n /\ F.n < Len(F._buffer))
             data == IF whole THEN F._buffer ELSE Take(F._buffer, F.n)
             G == [F EXCEPT !._buffer = IF whole THEN <<>> ELSE Drop(@, F.n),
                            !._pos = @ + Len(data),
                            !.n = @ - Len(data),
                            !.blocks = Append(@, data)]
         IN IF F.op = "read" /\ G.n > 0 THEN G ELSE Return(G, Concat(G.blocks))

\* The next raw block taken from the source whatever the driver holds.
NextRawBlock_from_source(F, k) == Take(F._fp, k)

\* if self._decompressor.unused_data: rawblock = self._decompressor.unused_data
\* else: rawblock = self._fp.read(_BUFFER_SIZE)
NextRawBlock(F, k) ==
    IF F._decompressor.unused_data # <<>> THEN F._decompressor.unused_data
    ELSE Take(F._fp, k)

\* A source that ends is taken for the end of the data whatever the driver
\* says.
SourceEnded_always_exhausted(F) ==
    Resume([F EXCEPT !._mode = _MODE_READ_EOF, !._size = F._pos], FALSE)

\* if not rawblock: read-exhausted mode if the driver is at the end of a
\* stream, EOFError otherwise.
SourceEnded(F) ==
    IF F._decompressor.eof
    THEN Resume([F EXCEPT !._mode = _MODE_READ_EOF, !._size = F._pos], FALSE)
    ELSE Raise(F, "EOFError")

\* One pass of the loop of _fill_buffer; fp.read(_BUFFER_SIZE) returns k bytes
\* when that many are left.
FillPass(F, k) ==
    IF F._buffer # <<>> THEN Resume(F, TRUE)
    ELSE LET unused == F._decompressor.unused_data
             rawblock == NextRawBlock(F, k)
             F1 == IF unused # <<>> THEN F ELSE [F EXCEPT !._fp = Drop(@, k)]
         IN IF rawblock = <<>> THEN SourceEnded(F1)
            ELSE LET d == IF F1._decompressor.eof
                          THEN LZMADecompressorInit(F1._init_args)
                          ELSE F1._decompressor
                 IN With(DriverCall(d, "decompress", rawblock), LAMBDA r :
                        IF r.exc # "" THEN Raise([F1 EXCEPT !._decompressor = r.d], r.exc)
                        ELSE [F1 EXCEPT !._decompressor = r.d, !._buffer = r.out])

\* seekable() of an _LZMAFile and of a _SeekableXZFile: the exception raised
\* ("" if none) and the value returned.
_LZMAFile_seekable(F) ==
    [exc |-> IF F._mode = _MODE_CLOSED THEN "ValueError" ELSE "", val |-> FALSE]
_SeekableXZFile_seekable(X) ==
    [exc |-> IF X._mode = _MODE_CLOSED THEN "ValueError" ELSE "", val |-> TRUE]

\* A call that is not a read returns the number n (-1 for None), raises.
ReturnInt(F, op, n) ==
    [F EXCEPT !.pc = "idle", !.op = op, !.n = 0, !.ret = <<>>, !.res = n, !.exc = "",
              !.blocks = <<>>]
RaiseInt(F, op, exc) ==
    [F EXCEPT !.pc = "idle", !.op = op, !.n = 0, !.ret = <<>>, !.res = -1, !.exc = exc,
              !.blocks = <<>>]

\* A check that lets a closed file pass.
_check_not_closed_never(F) == ""

\* io.UnsupportedOperation is a subclass of ValueError (and of OSError).
IsValueError(exc) == exc \in {"ValueError", "UnsupportedOperation"}

\* _check_not_closed, _check_can_write: the exception raised, "" if none.
_check_not_closed(F) == IF F._mode = _MODE_CLOSED THEN "ValueError" ELSE ""
_check_can_write(F) ==
    IF F._mode = _MODE_CLOSED THEN "ValueError"
    ELSE IF F._mode # _MODE_WRITE THEN "UnsupportedOperation"
    ELSE ""

\* self._compressor.flush() in close(): the driver's flush, or the error of
\* a flush that fails.
CloseFlush(F) ==
    IF F.fail = "flush" THEN [d |-> F._compressor, out |-> <<>>, exc |-> "LZMAError"]
    ELSE With(DriverCall(F._compressor, "flush", <<>>), LAMBDA r :
            [d |-> r.d, out |-> r.out, exc |-> r.exc])

\* The try block of close(): the object after it and the exception that
\* left it ("" if none).
CloseBody(F) ==
    IF F._mode \in {_MODE_READ, _MODE_READ_EOF}
    THEN [f |-> [F EXCEPT !._decompressor = Unused, !._buffer = <<>>], exc |-> ""]
    ELSE With(CloseFlush(F), LAMBDA r :
            IF r.exc # "" THEN [f |-> [F EXCEPT !._compressor = r.d], exc |-> r.exc]
            ELSE IF F.fail = "write"
            THEN [f |-> [F EXCEPT !._compressor = r.d], exc |-> "OSError"]
            ELSE [f |-> [F EXCEPT !._compressor = Unused, !.sink = Append(@, r.out)],
                  exc |-> ""])

\* A close() without its finally clauses: an exception leaves the file as
\* it is.
close_without_finally(F) ==
    IF F._mode = _MODE_CLOSED THEN ReturnInt(F, "close", -1)
    ELSE With(CloseBody(F), LAMBDA b :
           IF b.exc # "" THEN RaiseInt(b.f, "close", b.exc)
           ELSE IF F._closefp /\ F.fail = "close"
           THEN RaiseInt([b.f EXCEPT !.closes = @ + 1], "close", "OSError")
           ELSE ReturnInt([b.f EXCEPT !.closes = IF F._closefp THEN @ + 1 ELSE @,
                                      !._fp = <<>>, !._closefp = FALSE,
                                      !._mode = _MODE_CLOSED], "close", -1))

\* close(): the try block, then fp.close() if close_fp was given, then the
\* inner finally clause, whatever was raised.
close(F) ==
    IF F._mode = _MODE_CLOSED THEN ReturnInt(F, "close", -1)
    ELSE With(CloseBody(F), LAMBDA b :
           LET exc == IF F._closefp /\ F.fail = "close" THEN "OSError" ELSE b.exc
               G == [b.f EXCEPT !.closes = IF F._closefp THEN @ + 1 ELSE @,
                                !._fp = <<>>, !._closefp = FALSE,
                                !._mode = _MODE_CLOSED]
           IN IF exc # "" THEN RaiseInt(G, "close", exc) ELSE ReturnInt(G, "close", -1))

\* A write() that counts the compressed bytes.
write_counts_compressed(F, data) ==
    IF _check_can_write(F) # "" THEN RaiseInt(F, "write", _check_can_write(F))
    ELSE With(DriverCall(F._compressor, "compress", data), LAMBDA r :
           IF r.exc # "" THEN RaiseInt([F EXCEPT !._compressor = r.d], "write", r.exc)
           ELSE IF F.fail = "write"
           THEN RaiseInt([F EXCEPT !._compressor = r.d], "write", "OSError")
           ELSE ReturnInt([F EXCEPT !._compressor = r.d,
                                    !.sink = Append(@, r.out),
                                    !._pos = @ + Len(r.out),
                                    !.taken = @ \o data], "write", Len(r.out)))

\* write(data)
write(F, data) ==
    IF _check_can_write(F) # "" THEN RaiseInt(F, "write", _check_can_write(F))
    ELSE With(DriverCall(F._compressor, "compress", data), LAMBDA r :
           IF r.exc # "" THEN RaiseInt([F EXCEPT !._compressor = r.d], "write", r.exc)
           ELSE IF F.fail = "write"
           THEN RaiseInt([F EXCEPT !._compressor = r.d], "write", "OSError")
           ELSE ReturnInt([F EXCEPT !._compressor = r.d,
                                    !.sink = Append(@, r.out),
                                    !._pos = @ + Len(data),
                                    !.taken = @ \o data], "write", Len(data)))

\* _LZMAFile.tell()
_LZMAFile_tell(F) ==
    IF _check_not_closed(F) # "" THEN RaiseInt(F, "tell", _check_not_closed(F))
    ELSE ReturnInt(F, "tell", F._pos)

\* fileno(), readable(), writable(), seekable() of an _LZMAFile; a boolean
\* is returned as 1 or 0, and fp.fileno() is taken to be 3.
_LZMAFile_query(F, op) ==
    IF _check_not_closed(F) # "" THEN RaiseInt(F, op, _check_not_closed(F))
    ELSE ReturnInt(F, op,
            IF op = "fileno" THEN 3
            ELSE IF op = "readable"
            THEN (IF F._mode \in {_MODE_READ, _MODE_READ_EOF} THEN 1 ELSE 0)
            ELSE IF op = "writable" THEN (IF F._mode = _MODE_WRITE THEN 1 ELSE 0)
            ELSE (IF _LZMAFile_seekable(F).val THEN 1 ELSE 0))

\* seek(offset) of an _LZMAFile: the class defines none, io.BufferedIOBase's
\* raises io.UnsupportedOperation, which is a ValueError and an OSError.
_LZMAFile_seek(F, offset) == RaiseInt(F, "seek", "UnsupportedOperation")

FileInit ==
    /\ file \in {LZMAFileInit(src) : src \in FileSources(FileLen)}
    /\ drv = Unused
    /\ lock = 0
    /\ th = Unused
    /\ wire = <<>>
    /\ hist = Unused
    /\ os = Unused
    /\ heap = Unused
    /\ xz = Unused

\* The caller calls read(size), read1(size) or peek().
FileCall ==
    /\ file.pc = "idle"
    /\ \E op \in {"read", "read1", "peek"}, size \in {-1} \cup 0..MaxRead :
          file' = Begin(file, op, size)
    /\ UNCHANGED <<drv, lock, th, wire, hist, os, heap, xz>>

\* The call goes on by one pass of _fill_buffer.
FileFill ==
    /\ file.pc = "fill"
    /\ \E k \in 1.._BUFFER_SIZE : file' = FillPass(file, k)
    /\ UNCHANGED <<drv, lock, th, wire, hist, os, heap, xz>>

FileClose ==
    /\ file.pc = "idle"
    /\ file' = close(file)
    /\ UNCHANGED <<drv, lock, th, wire, hist, os, heap, xz>>

FileNext == FileCall \/ FileFill \/ FileClose

SpecFile == FileInit /\ [][FileNext]_vars

\* The same wrapper opened on any file, whole or truncated.
FileAnyInit ==
    /\ file \in {LZMAFileInit(src) :
                    src \in FileSources(FileLen) \cup TruncatedSources(FileLen)}
    /\ drv = Unused
    /\ lock = 0
    /\ th = Unused
    /\ wire = <<>>
    /\ hist = Unused
    /\ os = Unused
    /\ heap = Unused
    /\ xz = Unused

SpecFileAny == FileAnyInit /\ [][FileNext]_vars

\* ------------------------------------------------------- engine handles
\* Driver constructors called, over all callers.
MaxDrivers == 3

DriverIds == 1..MaxDrivers

\* heap:
\*   lzs    the lzma_stream objects made by _new_lzma_stream, by handle:
\*            st    "none" before it is made, "live", "freed" once collected
\*            gc    lzma_end is registered as its finalizer (ffi.gc)
\*            ends  the calls of lzma_end on it
\*   obj    the driver objects, in the order of the constructor calls:
\*            st    "none", "made"
\*            lzs   self.lzs: a handle, 0 when the constructor never set it
\*   user   the drivers a caller's variable refers to
\*   seq    the sequential wrapper: its _mode and the driver _decompressor
\*          refers to (0 for None)
\*   seek   the seekable reader: the same
HeapInit ==
    [lzs |-> [h \in DriverIds |-> [st |-> "none", gc |-> FALSE, ends |-> 0]],
     obj |-> [o \in DriverIds |-> [st |-> "none", lzs |-> 0]],
     user |-> {},
     seq |-> [_mode |-> _MODE_CLOSED, _decompressor |-> 0, opened |-> FALSE],
     seek |-> [_mode |-> _MODE_CLOSED, _decompressor |-> 0, opened |-> FALSE]]

\* The handles and driver objects made so far.
Made(tab) == {i \in DriverIds : tab[i].st # "none"}

\* A slip: the lzma_stream is returned without its finalizer.
_new_lzma_stream_unregistered(hp) ==
    LET h == Cardinality(Made(hp.lzs)) + 1
    IN [hp |-> [hp EXCEPT !.lzs[h] = [st |-> "live", gc |-> FALSE, ends |-> 0]],
        h |-> h]

\* _new_lzma_stream(): ret = ffi.new('lzma_stream*'); return ffi.gc(ret, lzma_end)
_new_lzma_stream(hp) ==
    LET h == Cardinality(Made(hp.lzs)) + 1
    IN [hp |-> [hp EXCEPT !.lzs[h] = [st |-> "live", gc |-> TRUE, ends |-> 0]],
        h |-> h]

\* How a driver constructor ends: it raises before self.lzs is set (ValueError
\* on the arguments), it raises after (NotImplementedError for a format not
\* implemented, LZMAError from the engine's initialiser), or it returns.
Outcomes == {"early", "late", "ok"}

\* LZMADecompressor(...) / LZMACompressor(...): the heap after the call and the
\* new object, which the caller gets only when the constructor returned.
Construct(hp, outcome) ==
    LET o == Cardinality(Made(hp.obj)) + 1
        hp1 == [hp EXCEPT !.obj[o] = [st |-> "made", lzs |-> 0]]
        n == _new_lzma_stream(hp1)
    IN IF outcome = "early" THEN [hp |-> hp1, o |-> o]
       ELSE [hp |-> [n.hp EXCEPT !.obj[o].lzs = n.h], o |-> o]

\* The driver objects the program can still reach.
ReachableDrivers(hp) ==
    hp.user \cup ({hp.seq._decompressor, hp.seek._decompressor} \ {0})

\* The lzma_stream objects the program can still reach: only through self.lzs.
Reachable(hp, h) == \E o \in ReachableDrivers(hp) : hp.obj[o].lzs = h

\* The garbage collector frees an lzma_stream no reference leads to and runs
\* the finalizer registered for it.
Finalize(hp, h) ==
    [hp EXCEPT !.lzs[h].st = "freed",
               !.lzs[h].ends = IF hp.lzs[h].gc THEN @ + 1 ELSE @]

HandlesInit ==
    /\ heap = HeapInit
    /\ xz = Unused
    /\ drv = Unused
    /\ lock = 0
    /\ th = Unused
    /\ wire = <<>>
    /\ hist = Unused
    /\ os = Unused
    /\ file = Unused

CanConstruct == Cardinality(Made(heap.obj)) < MaxDrivers

\* A caller constructs a driver and keeps it in a variable.
UserConstruct ==
    /\ CanConstruct
    /\ \E outcome \in Outcomes :
          LET c == Construct(heap, outcome)
          IN heap' = IF outcome = "ok" THEN [c.hp EXCEPT !.user = @ \cup {c.o}] ELSE c.hp
    /\ UNCHANGED <<drv, lock, th, wire, hist, os, file, xz>>

\* The caller's variable goes away.
UserDrop ==
    /\ \E o \in heap.user : heap' = [heap EXCEPT !.user = @ \ {o}]
    /\ UNCHANGED <<drv, lock, th, wire, hist, os, file, xz>>

\* _LZMAFile.__init__ for reading: self._decompressor = LZMADecompressor(...)
SeqOpen ==
    /\ ~heap.seq.opened
    /\ CanConstruct
    /\ \E outcome \in Outcomes :
          LET c == Construct(heap, outcome)
          IN heap' = IF outcome = "ok"
                     THEN [c.hp EXCEPT !.seq = [_mode |-> _MODE_READ, _decompressor |-> c.o,
                                                opened |-> TRUE]]
                     ELSE [c.hp EXCEPT !.seq.opened = TRUE]
    /\ UNCHANGED <<drv, lock, th, wire, hist, os, file, xz>>

\* _fill_buffer at a stream boundary:
\* self._decompressor = LZMADecompressor(**self._init_args)
SeqNextStream ==
    /\ heap.seq._mode = _MODE_READ
    /\ CanConstruct
    /\ \E outcome \in Outcomes :
          LET c == Construct(heap, outcome)
          IN heap' = IF outcome = "ok" THEN [c.hp EXCEPT !.seq._decompressor = c.o]
                     ELSE c.hp
    /\ UNCHANGED <<drv, lock, th, wire, hist, os, file, xz>>

\* _LZMAFile.close(): self._decompressor = None
SeqClose ==
    /\ heap.seq._mode = _MODE_READ
    /\ heap' = [heap EXCEPT !.seq._decompressor = 0, !.seq._mode = _MODE_CLOSED]
    /\ UNCHANGED <<drv, lock, th, wire, hist, os, file, xz>>

\* _SeekableXZFile._init_decompressor, at open and at every switch of block:
\* self._mode = _MODE_READ; ...; self._decompressor = LZMADecompressor(...)
SeekInitDecompressor ==
    /\ ~heap.seek.opened \/ heap.seek._mode = _MODE_READ
    /\ CanConstruct
    /\ \E outcome \in Outcomes :
          LET c == Construct(heap, outcome)
              hp1 == [c.hp EXCEPT !.seek._mode = _MODE_READ, !.seek.opened = TRUE]
          IN heap' = IF outcome = "ok" THEN [hp1 EXCEPT !.seek._decompressor = c.o]
                     ELSE hp1
    /\ UNCHANGED <<drv, lock, th, wire, hist, os, file, xz>>

\* _SeekableXZFile.close(): self._decompressor = None
SeekClose ==
    /\ heap.seek._mode = _MODE_READ
    /\ heap' = [heap EXCEPT !.seek._decompressor = 0, !.seek._mode = _MODE_CLOSED]
    /\ UNCHANGED <<drv, lock, th, wire, hist, os, file, xz>>

\* The garbage collector frees lzma_stream h.
Collect(h) ==
    /\ heap.lzs[h].st = "live"
    /\ ~Reachable(heap, h)
    /\ heap' = Finalize(heap, h)
    /\ UNCHANGED <<drv, lock, th, wire, hist, os, file, xz>>

HandlesNext ==
    \/ UserConstruct \/ UserDrop
    \/ SeqOpen \/ SeqNextStream \/ SeqClose
    \/ SeekInitDecompressor \/ SeekClose
    \/ \E h \in DriverIds : Collect(h)

\* Garbage no reference leads to is collected in the end.
SpecHandles ==
    HandlesInit /\ [][HandlesNext]_vars /\ \A h \in DriverIds : WF_vars(Collect(h))

\* ------------------------------------------------ the indexed container
\* A file of the indexed container, in 4-byte words.  A word is a cell
\* [t, v]: t tells what the word is, v is the number it encodes (0 if none).
\*   stream header   "H", flags            (the flags name the check kind)
\*   block           its header ("B", or "B2" "b": the first word tells the
\*                   header's size), the data tokens, the end of data, the
\*                   check field
\*   index           "I" (v: the number of records), then for each block
\*                   "i" (v: unpadded size) and "j" (v: uncompressed size)
\*   stream footer   flags (v: backward_size, the size of the index), "F"
\*   stream padding  zero words
\* The stream header and the stream footer take STREAM_HEADER_SIZE words
\* (12 bytes, scaled to 2 words).
STREAM_HEADER_SIZE == 2

Cell(t, v) == [t |-> t, v |-> v]
Word(t) == Cell(t, 0)
Words(ts) == [i \in 1..Len(ts) |-> Word(ts[i])]
\* The bytes of the words, as the decoder is given them.
TagsOf(cells) == [i \in 1..Len(cells) |-> cells[i].t]

StreamHeaderCells(flags) == <<Word("H"), Word(flags)>>
StreamFooterCells(flags, backward_size) == <<Cell(flags, backward_size), Word("F")>>
BlockHeaderCells(hs) == IF hs = 1 THEN <<Word("B")>> ELSE <<Word("B2"), Word("b")>>

\* A block [hs, data] of a stream with check kind `check`.
BlockCells(b, check) ==
    BlockHeaderCells(b.hs) \o Words(Tokens(b.data) \o <<EOS>> \o CheckCells(check))

IndexCells(blocks, check) ==
    <<Cell("I", Len(blocks))>>
        \o Concat([i \in 1..Len(blocks) |->
                     <<Cell("i", Len(BlockCells(blocks[i], check))),
                       Cell("j", Len(blocks[i].data))>>])

\* A stream [check, fcheck, blocks, padding]: fcheck is the check kind its
\* footer names (the one of the header, unless the file is damaged) and
\* padding the number of zero words after it.
StreamCells(sd) ==
    StreamHeaderCells(HdrXZ(sd.check))
        \o Concat([i \in 1..Len(sd.blocks) |-> BlockCells(sd.blocks[i], sd.check)])
        \o IndexCells(sd.blocks, sd.check)
        \o StreamFooterCells(HdrXZ(sd.fcheck), Len(IndexCells(sd.blocks, sd.check)))
        \o [i \in 1..sd.padding |-> Word(Pad)]

\* _peek(fp, n) with fp at pos: the n words at pos, <<>> (False) if fewer are left.
_peek(cells, pos, n) ==
    IF pos + n <= Len(cells) THEN SubSeq(cells, pos + 1, pos + n) ELSE <<>>

\* decode_stream_footer, decode_stream_header: the stream flags, or not ok.
decode_stream_footer(in) ==
    IF Len(in) = STREAM_HEADER_SIZE /\ in[2].t = "F" /\ IsHdrXZ(in[1].t)
    THEN [ok |-> TRUE, check |-> CheckOf(in[1].t), backward_size |-> in[1].v]
    ELSE [ok |-> FALSE, check |-> CHECK_UNKNOWN, backward_size |-> 0]

decode_stream_header(in) ==
    IF Len(in) = STREAM_HEADER_SIZE /\ in[1].t = "H" /\ IsHdrXZ(in[2].t)
    THEN [ok |-> TRUE, check |-> CheckOf(in[2].t), backward_size |-> 0]
    ELSE [ok |-> FALSE, check |-> CHECK_UNKNOWN, backward_size |-> 0]

\* stream_flags.matches(stream_flags2): the same check kind.
matches(stream_flags, stream_flags2) == stream_flags.check = stream_flags2.check

\* decode_index(in, padding): the index of one stream, a sequence holding the
\* one stream [blocks, padding]; each block [unpadded_size, uncompressed_size].
decode_index(in, padding) ==
    IF /\ Len(in) >= 1
       /\ in[1].t = "I"
       /\ Len(in) = 1 + 2 * in[1].v
       /\ \A k \in 1..in[1].v : in[2 * k].t = "i" /\ in[2 * k + 1].t = "j"
    THEN [ok |-> TRUE,
          streams |-> <<[blocks |-> [k \in 1..in[1].v |->
                                       [unpadded_size |-> in[2 * k].v,
                                        uncompressed_size |-> in[2 * k + 1].v]],
                         padding |-> padding]>>]
    ELSE [ok |-> FALSE, streams |-> <<>>]

\* decode_block_header_size(_peek(fp, 1))
decode_block_header_size(in) == IF in # <<>> /\ in[1].t = "B2" THEN 2 ELSE 1

RECURSIVE SumOver(_, _)
\* The sum of fld over the records of seq; fld is "c" for the sizes in the
\* file and "u" for the uncompressed sizes.
SumOver(seq, fld) ==
    IF seq = <<>> THEN 0
    ELSE (IF fld = "c" THEN Head(seq).unpadded_size ELSE Head(seq).uncompressed_size)
            + SumOver(Tail(seq), fld)

\* index.blocks_size of the index of one stream
blocks_size(stream) == SumOver(stream.blocks, "c")
\* The words a stream takes in the file, with its padding.
StreamTotal(stream) ==
    2 * STREAM_HEADER_SIZE + blocks_size(stream) + 1 + 2 * Len(stream.blocks)
        + stream.padding

RECURSIVE uncompressed_size(_)
\* index.uncompressed_size
uncompressed_size(index) ==
    IF index = <<>> THEN 0
    ELSE SumOver(Head(index).blocks, "u") + uncompressed_size(Tail(index))

RECURSIVE StreamBlocks(_, _, _, _)
\* The blocks of stream `number`, the first at word coff of the file and at
\* byte uoff of the contents.
StreamBlocks(blocks, number, coff, uoff) ==
    IF blocks = <<>> THEN <<>>
    ELSE <<[number |-> number,
            compressed_file_offset |-> coff,
            unpadded_size |-> Head(blocks).unpadded_size,
            uncompressed_size |-> Head(blocks).uncompressed_size,
            uncompressed_file_offset |-> uoff]>>
         \o StreamBlocks(Tail(blocks), number, coff + Head(blocks).unpadded_size,
                         uoff + Head(blocks).uncompressed_size)

RECURSIVE IndexBlocks(_, _, _, _)
\* The blocks of the whole index in file order; streams are numbered from 1
\* in file order.
IndexBlocks(index, number, start, uoff) ==
    IF index = <<>> THEN <<>>
    ELSE StreamBlocks(Head(index).blocks, number, start + STREAM_HEADER_SIZE, uoff)
         \o IndexBlocks(Tail(index), number + 1, start + StreamTotal(Head(index)),
                        uoff + SumOver(Head(index).blocks, "u"))

\* index.find(offset): the block holding byte `offset` of the contents, with
\* the number of its stream; <<>> (None) past the end.
find(index, offset) ==
    LET bl == IndexBlocks(index, 1, 0, 0)
        hit == {i \in 1..Len(bl) :
                  /\ bl[i].uncompressed_file_offset <= offset
                  /\ offset < bl[i].uncompressed_file_offset + bl[i].uncompressed_size}
    IN IF hit = {} THEN <<>> ELSE <<bl[CHOOSE i \in hit : TRUE]>>

\* ------------------------------------------------- the seekable reader
\* An exception raised while the index is built.
OpenFails(exc) == [exc |-> exc, pos |-> 0, index |-> <<>>, check |-> CHECK_UNKNOWN]

RECURSIVE PaddingLoop(_, _)
\* while _peek(fp, 4) == b'\x00\x00\x00\x00': fp.seek(-4, SEEK_CUR)
\* The position the loop ends at; -1 when it seeks to before the file.
PaddingLoop(cells, pos) ==
    IF _peek(cells, pos, 1) # <<Word(Pad)>> THEN pos
    ELSE IF pos = 0 THEN -1
    ELSE PaddingLoop(cells, pos - 1)

\* The size test against one stream header only.
TooSmall_one_header(pos) == pos < STREAM_HEADER_SIZE

\* if fp.tell() < 2 * STREAM_HEADER_SIZE
TooSmall(pos) == pos < 2 * STREAM_HEADER_SIZE

\* A test of header against footer that finds no difference.
HeaderFooterDiffer_never(stream_flags, stream_flags2) == FALSE

\* if not stream_flags.matches(stream_flags2): raise LZMAError(...)
HeaderFooterDiffer(stream_flags, stream_flags2) == ~matches(stream_flags, stream_flags2)

\* fp.seek(delta, SEEK_CUR) with fp at pos, delta < 0: the new position.  A
\* position before the start of the file is an OSError (-1 here) when fp is a
\* file of the operating system, and position 0 when fp is an io.BytesIO.
SeekCur(io, pos, delta) ==
    IF pos + delta >= 0 THEN pos + delta ELSE IF io = "BytesIO" THEN 0 ELSE -1

\* The rest of one pass of the loop of __init__, after the padding loop left
\* fp at p1 and counted `padding` zero words: the exception raised ("" if
\* none), fp's position after it, the index of the stream and its check kind.
StreamAt(io, cells, p1, padding) ==
    LET fpos == SeekCur(io, p1, -(STREAM_HEADER_SIZE - 1))
        stream_flags == decode_stream_footer(_peek(cells, fpos, STREAM_HEADER_SIZE))
        ipos == SeekCur(io, fpos, -stream_flags.backward_size)
        new_index == decode_index(_peek(cells, ipos, stream_flags.backward_size),
                                  padding)
        bpos == SeekCur(io, ipos, -blocks_size(new_index.streams[1]))
        hpos == IF bpos < 0 THEN -1 ELSE SeekCur(io, bpos, -STREAM_HEADER_SIZE)
        stream_flags2 == decode_stream_header(_peek(cells, hpos, STREAM_HEADER_SIZE))
    IN IF fpos < 0 THEN OpenFails("OSError")
       ELSE IF ~stream_flags.ok THEN OpenFails("LZMAError")
       ELSE IF ipos < 0 THEN OpenFails("OSError")
       ELSE IF ~new_index.ok THEN OpenFails("LZMAError")
       ELSE IF hpos < 0 THEN OpenFails("OSError")
       ELSE IF ~stream_flags2.ok THEN OpenFails("LZMAError")
       ELSE IF HeaderFooterDiffer(stream_flags, stream_flags2)
       THEN OpenFails("header and footer don't match")
       ELSE [exc |-> "", pos |-> hpos, index |-> new_index.streams,
             check |-> stream_flags.check]

\* One pass of the loop of __init__ ("read one stream") with fp, a file of
\* the operating system, at pos.
ReadOneStream(cells, pos) ==
    IF TooSmall(pos) THEN OpenFails("file too small")
    ELSE With(PaddingLoop(cells, pos - 1), LAMBDA p1 :
            IF p1 < 0 THEN OpenFails("OSError")
            ELSE StreamAt("file", cells, p1, pos - 1 - p1))

\* The merge with its arguments exchanged: index.append(new_index).
MergeIndex_exchanged(new_index, index) == index \o new_index

\* if index is not None: new_index.append(index); index = new_index
MergeIndex(new_index, index) == new_index \o index

RECURSIVE ReadStreams(_, _, _, _)
\* The loop "while fp.tell() > 0" and the test after it: the exception raised
\* ("" if none), the index (streams in file order) and self._check.
ReadStreams(cells, pos, index, check) ==
    IF pos > 0
    THEN With(ReadOneStream(cells, pos), LAMBDA r :
            IF r.exc # "" THEN [exc |-> r.exc, index |-> <<>>, check |-> <<>>]
            ELSE ReadStreams(cells, r.pos, MergeIndex(r.index, index),
                             Append(check, r.check)))
    ELSE IF index = <<>>
    THEN [exc |-> "file is empty", index |-> <<>>, check |-> <<>>]
    ELSE [exc |-> "", index |-> index, check |-> check]

\* LZMADecompressor(format=FORMAT_BLOCK, header=..., check=..., unpadded_size=...)
LZMADecompressorBlock(check) ==
    [kind |-> "decomp", lzs |-> lzma_block_decoder(check), flushed |-> FALSE,
     eof |-> FALSE, unused_data |-> <<>>, check |-> check]

\* self._check[stream_data.number-1]
CheckOfStream(check, number) == check[number]

\* A _SeekableXZFile object X.
\*   cells, fp       the file and fp's position in it
\*   _mode, _check, _index, _size, _pos, _block_offset, _block_ends_at,
\*   _buffer, _decompressor: as in the code; _block_ends_at is <<>> while the
\*                   attribute is not set, _buffer is <<>> for None and b""
\*   op, ret, res, exc   the last call, the bytes or the number it returned
\*                   and the exception it raised ("" if none)
\* and, for the properties:
\*   made            the drivers constructed during the last call
\*   number          the stream of the block the last driver was made for
\*   moved           the fp.seek calls of _init_decompressor during the last call
\*   plain, checks   the contents of the file and the check kind each stream
\*                   declares, in file order
\*   sizes           the length of the contents of each block of each stream,
\*                   in file order
\* _init_decompressor(stream_data, block_data)
_init_decompressor(X, b) ==
    LET header_size == decode_block_header_size(
                           _peek(X.cells, b.compressed_file_offset, 1))
    IN [X EXCEPT !._mode = _MODE_READ,
                 !._pos = b.uncompressed_file_offset,
                 !._block_offset = b.uncompressed_file_offset,
                 !._block_ends_at = <<b.uncompressed_file_offset + b.uncompressed_size>>,
                 !._buffer = <<>>,
                 !.fp = b.compressed_file_offset + header_size,
                 !._decompressor = LZMADecompressorBlock(CheckOfStream(X._check, b.number)),
                 !.made = @ + 1,
                 !.number = b.number,
                 !.moved = @ + 1]

\* _move_to_block that leaves the mode alone when no block holds the offset.
_move_to_block_keeps_mode(X, offset) ==
    LET next_block_details == find(X._index, offset)
    IN IF next_block_details = <<>>
       THEN [x |-> [X EXCEPT !._pos = X._size], ok |-> FALSE]
       ELSE [x |-> _init_decompressor(X, next_block_details[1]), ok |-> TRUE]

\* _move_to_block(offset): the object after it and what it returned.
_move_to_block(X, offset) ==
    LET next_block_details == find(X._index, offset)
    IN IF next_block_details = <<>>
       THEN [x |-> [X EXCEPT !._pos = X._size, !._mode = _MODE_READ_EOF], ok |-> FALSE]
       ELSE [x |-> _init_decompressor(X, next_block_details[1]), ok |-> TRUE]

\* fp.read(_BUFFER_SIZE)
FpRead(X) ==
    SubSeq(X.cells, X.fp + 1,
           IF X.fp + _BUFFER_SIZE < Len(X.cells) THEN X.fp + _BUFFER_SIZE ELSE Len(X.cells))

RECURSIVE SeekFillBuffer(_)
\* _SeekableXZFile._fill_buffer: the object after it, what it returned and
\* the exception it raised ("" if none).
SeekFillBuffer(X) ==
    IF X._buffer # <<>> THEN [x |-> X, ok |-> TRUE, exc |-> ""]
    ELSE LET unused == X._decompressor.unused_data
             rawblock == IF unused # <<>> THEN unused ELSE TagsOf(FpRead(X))
             X1 == IF unused # <<>> THEN X ELSE [X EXCEPT !.fp = @ + Len(FpRead(X))]
         IN IF rawblock = <<>>
            THEN IF X1._decompressor.eof
                 THEN [x |-> [X1 EXCEPT !._mode = _MODE_READ_EOF], ok |-> FALSE, exc |-> ""]
                 ELSE [x |-> X1, ok |-> FALSE, exc |-> "EOFError"]
            ELSE IF X1._decompressor.eof
            THEN With(_move_to_block(X1, X1._pos), LAMBDA m :
                    IF m.ok THEN SeekFillBuffer(m.x)
                    ELSE [x |-> m.x, ok |-> FALSE, exc |-> ""])
            ELSE With(DriverCall(X1._decompressor, "decompress", rawblock), LAMBDA r :
                    IF r.exc # ""
                    THEN [x |-> [X1 EXCEPT !._decompressor = r.d], ok |-> FALSE,
                          exc |-> r.exc]
                    ELSE SeekFillBuffer([X1 EXCEPT !._decompressor = r.d,
                                                   !._buffer = r.out]))

RECURSIVE SeekReadBlock(_, _, _)
\* _SeekableXZFile._read_block(n): the object after it, the bytes read
\* (b"".join(blocks)) and the exception raised.
SeekReadBlock(X, n, blocks) ==
    IF n <= 0 THEN [x |-> X, data |-> blocks, exc |-> ""]
    ELSE With(SeekFillBuffer(X), LAMBDA r :
            IF r.exc # "" THEN [x |-> r.x, data |-> <<>>, exc |-> r.exc]
            ELSE IF ~r.ok THEN [x |-> r.x, data |-> blocks, exc |-> ""]
            ELSE LET data == IF n < Len(r.x._buffer) THEN Take(r.x._buffer, n)
                                                      ELSE r.x._buffer
                 IN SeekReadBlock([r.x EXCEPT !._buffer = Drop(@, Len(data)),
                                              !._pos = @ + Len(data)],
                                  n - Len(data), blocks \o data))

RECURSIVE SeekReadAll(_, _)
\* _SeekableXZFile._read_all()
SeekReadAll(X, blocks) ==
    With(SeekFillBuffer(X), LAMBDA r :
        IF r.exc # "" THEN [x |-> r.x, data |-> <<>>, exc |-> r.exc]
        ELSE IF ~r.ok THEN [x |-> r.x, data |-> blocks, exc |-> ""]
        ELSE SeekReadAll([r.x EXCEPT !._buffer = <<>>, !._pos = @ + Len(r.x._buffer)],
                         blocks \o r.x._buffer))

\* The call `op` returns bytes, returns a number, raises.
SeekReturn(X, op, bytes) == [X EXCEPT !.op = op, !.ret = bytes, !.res = -1, !.exc = ""]
SeekReturnInt(X, op, n) == [X EXCEPT !.op = op, !.ret = <<>>, !.res = n, !.exc = ""]
SeekRaise(X, op, exc) == [X EXCEPT !.op = op, !.ret = <<>>, !.res = -1, !.exc = exc]

\* _SeekableXZFile.read(size)
SeekRead(X, size) ==
    IF X._mode = _MODE_CLOSED THEN SeekRaise(X, "read", "ValueError")
    ELSE IF X._mode = _MODE_READ_EOF \/ size = 0 THEN SeekReturn(X, "read", <<>>)
    ELSE With(IF size < 0 THEN SeekReadAll(X, <<>>) ELSE SeekReadBlock(X, size, <<>>),
              LAMBDA r : IF r.exc # "" THEN SeekRaise(r.x, "read", r.exc)
                         ELSE SeekReturn(r.x, "read", r.data))

\* _SeekableXZFile.read1(size)
SeekRead1(X, size) ==
    IF X._mode = _MODE_CLOSED THEN SeekRaise(X, "read1", "ValueError")
    ELSE IF size = 0 \/ X._mode = _MODE_READ_EOF THEN SeekReturn(X, "read1", <<>>)
    ELSE With(SeekFillBuffer(X), LAMBDA r :
            IF r.exc # "" THEN SeekRaise(r.x, "read1", r.exc)
            ELSE IF ~r.ok THEN SeekReturn(r.x, "read1", <<>>)
            ELSE LET data == IF 0 < size /\ size < Len(r.x._buffer)
                             THEN Take(r.x._buffer, size) ELSE r.x._buffer
                 IN SeekReturn([r.x EXCEPT !._buffer = Drop(@, Len(data)),
                                           !._pos = @ + Len(data)], "read1", data))

\* _SeekableXZFile.peek()
SeekPeek(X) ==
    IF X._mode = _MODE_CLOSED THEN SeekRaise(X, "peek", "ValueError")
    ELSE IF X._mode = _MODE_READ_EOF THEN SeekReturn(X, "peek", <<>>)
    ELSE With(SeekFillBuffer(X), LAMBDA r :
            IF r.exc # "" THEN SeekRaise(r.x, "peek", r.exc)
            ELSE SeekReturn(r.x, "peek", IF r.ok THEN r.x._buffer ELSE <<>>))

\* Every seek loads a block.
OutsideLoaded_always(X, offset) == TRUE

\* The block test without its lower end: offset < self._block_ends_at.
OutsideLoaded_upper_only(X, offset) == ~(offset < X._block_ends_at[1])

\* if not self._pos <= offset < self._block_ends_at
OutsideLoaded(X, offset) == ~(X._pos <= offset /\ offset < X._block_ends_at[1])

\* _SeekableXZFile.seek(offset, whence).  Reading self._block_ends_at while it
\* is not set is an AttributeError.
seek(X, offset, whence) ==
    IF X._mode = _MODE_CLOSED THEN SeekRaise(X, "seek", "ValueError")
    ELSE LET abs == IF whence = 0 THEN offset
                    ELSE IF whence = 1 THEN X._pos + offset
                    ELSE X._size + offset
             target == IF abs > 0 THEN abs ELSE 0
         IN IF X._pos <= target /\ X._block_ends_at = <<>>
            THEN SeekRaise(X, "seek", "AttributeError")
            ELSE With(IF OutsideLoaded(X, target) THEN _move_to_block(X, target).x ELSE X,
                      LAMBDA X1 :
                        IF X1._mode = _MODE_READ_EOF
                        THEN SeekReturnInt(X1, "seek", X1._pos)
                        ELSE With(SeekReadBlock(X1, target - X1._pos, <<>>), LAMBDA r :
                                IF r.exc # "" THEN SeekRaise(r.x, "seek", r.exc)
                                ELSE SeekReturnInt(r.x, "seek", r.x._pos)))

\* _SeekableXZFile.tell()
tell(X) ==
    IF X._mode = _MODE_CLOSED THEN SeekRaise(X, "tell", "ValueError")
    ELSE SeekReturnInt(X, "tell", X._pos)

\* _SeekableXZFile.close(): fp.close() if close_fp was given (`closes` counts
\* the calls, `fail` = "close" makes the call raise), then the finally clause.
SeekableClose(X) ==
    IF X._mode = _MODE_CLOSED THEN SeekReturnInt(X, "close", -1)
    ELSE [X EXCEPT !.closes = IF X._closefp THEN @ + 1 ELSE @,
                   !._decompressor = Unused, !._buffer = <<>>,
                   !._closefp = FALSE, !._mode = _MODE_CLOSED,
                   !.op = "close", !.ret = <<>>, !.res = -1,
                   !.exc = IF X._closefp /\ X.fail = "close" THEN "OSError" ELSE ""]

\* fileno(), readable(), writable(), seekable() of a _SeekableXZFile; a
\* boolean is returned as 1 or 0, and fp.fileno() is taken to be 3.
_SeekableXZFile_query(X, op) ==
    IF X._mode = _MODE_CLOSED THEN SeekRaise(X, op, "ValueError")
    ELSE SeekReturnInt(X, op,
            IF op = "fileno" THEN 3
            ELSE IF op = "writable" THEN 0
            ELSE IF op = "readable" THEN 1
            ELSE (IF _SeekableXZFile_seekable(X).val THEN 1 ELSE 0))

\* write(data) of a _SeekableXZFile: the class defines none,
\* io.BufferedIOBase's raises io.UnsupportedOperation.
_SeekableXZFile_write(X, data) == SeekRaise(X, "write", "UnsupportedOperation")

\* Longest file of the indexed container, in words.
SeekLen == 16
\* Most streams in a file.
MaxSeekStreams == 2
\* Largest size passed to read() and read1() of the seekable reader.
MaxSeekRead == 2
\* Largest distance of a relative seek.
MaxSkip == 2

\* The blocks the files are made of: their header size and their contents.
BlockSamples ==
    {[hs |-> 1, data |-> <<"a">>], [hs |-> 1, data |-> <<"a", "b">>],
     [hs |-> 2, data |-> <<"a", "b", "b", "a">>]}

Checks == {CHECK_NONE, CHECK_CRC32, CHECK_CRC64}

\* The streams of at most n words whose footer names the check kind of the
\* header (same = TRUE) or another one.
StreamDescs(n, same) ==
    {sd \in [check : Checks, fcheck : Checks,
             blocks : SeqsUpTo(BlockSamples, IF n < 10 THEN 0 ELSE (n - 5) \div 5),
             padding : 0..1] :
        /\ (sd.check = sd.fcheck) = same
        /\ Len(StreamCells(sd)) <= n}

\* What a stream and a file of streams hold.
StreamPlain(sd) == Concat([i \in 1..Len(sd.blocks) |-> sd.blocks[i].data])
FilePlain(sds) == Concat([i \in 1..Len(sds) |-> StreamPlain(sds[i])])
FileCells(sds) == Concat([i \in 1..Len(sds) |-> StreamCells(sds[i])])

RECURSIVE StreamSeqs(_, _)
\* The sequences of one to m well-formed streams, of at most n words in all.
StreamSeqs(n, m) ==
    LET one == StreamDescs(n, TRUE)
    IN IF m = 0 THEN {}
       ELSE {<<sd>> : sd \in one}
               \cup UNION {{<<sd>> \o rest :
                               rest \in StreamSeqs(n - Len(StreamCells(sd)), m - 1)} :
                              sd \in one}

\* A file given to the reader: its words, what it holds, the check kind each
\* stream declares and what is wrong with it ("" if nothing).
SeekSource(cells, sds, kind) ==
    [cells |-> cells, plain |-> IF kind = "" THEN FilePlain(sds) ELSE <<>>,
     checks |-> IF kind = "" THEN [i \in 1..Len(sds) |-> sds[i].check] ELSE <<>>,
     sizes |-> IF kind = ""
               THEN [i \in 1..Len(sds) |->
                       [j \in 1..Len(sds[i].blocks) |-> Len(sds[i].blocks[j].data)]]
               ELSE <<>>,
     kind |-> kind]

\* The well-formed files.
ValidSources(n) ==
    {SeekSource(FileCells(sds), sds, "") : sds \in StreamSeqs(n, MaxSeekStreams)}

\* The files shorter than two stream headers: the first words of a file, its
\* last words, and zero words.
ShortSources(n) ==
    {SeekSource(c, <<>>, "short") :
        c \in UNION {{Take(v.cells, k), Drop(v.cells, Len(v.cells) - k),
                      [i \in 1..k |-> Word(Pad)]} :
                        v \in ValidSources(n), k \in 0..(2 * STREAM_HEADER_SIZE - 1)}}

\* The files in which the footer of one stream names another check kind than
\* its header: such a stream alone, or before or after a well-formed stream.
MismatchSources(n) ==
    {SeekSource(FileCells(sds), sds, "mismatch") :
        sds \in UNION {{<<bad>>} \cup
                       UNION {{<<bad, sd>>, <<sd, bad>>} :
                                 sd \in StreamDescs(n - Len(StreamCells(bad)), TRUE)} :
                          bad \in StreamDescs(n, FALSE)}}

\* The files whose streams do not begin at word 0: a well-formed file after
\* junk or zero words, or with its first words cut off.
MisalignedSources(n) ==
    {SeekSource(c, <<>>, "misaligned") :
        c \in UNION {{[i \in 1..k |-> Word(Junk)] \o v.cells,
                      [i \in 1..k |-> Word(Pad)] \o v.cells,
                      Drop(v.cells, k)} :
                        v \in ValidSources(n - 2 * STREAM_HEADER_SIZE - 1),
                        k \in 1..(2 * STREAM_HEADER_SIZE + 1)}
                \ ({<<>>} \cup {v.cells : v \in ValidSources(n)})}

SeekSources(n) ==
    ValidSources(n) \cup ShortSources(n) \cup MismatchSources(n)
        \cup MisalignedSources(n)

\* _SeekableXZFile(fp) on the file src: the object, or the exception raised.
_SeekableXZFile(src) ==
    LET X0 == [cells |-> src.cells, fp |-> 0, _mode |-> _MODE_CLOSED, _check |-> <<>>,
               _index |-> <<>>, _size |-> 0, _pos |-> 0, _block_offset |-> 0,
               _block_ends_at |-> <<>>, _buffer |-> <<>>, _decompressor |-> Unused,
               op |-> "open", ret |-> <<>>, res |-> -1, exc |-> "",
               made |-> 0, number |-> 0, moved |-> 0,
               plain |-> src.plain, checks |-> src.checks, sizes |-> src.sizes,
               kind |-> src.kind,
               target |-> 0, before |-> <<>>,
               _closefp |-> src._closefp, closes |-> 0, fail |-> src.fail]
    IN With(ReadStreams(src.cells, Len(src.cells), <<>>, <<>>), LAMBDA r :
          IF r.exc # "" THEN [X0 EXCEPT !.exc = r.exc]
          ELSE _move_to_block([X0 EXCEPT !._check = r.check, !._index = r.index,
                                         !._size = uncompressed_size(r.index)], 0).x)

\* The file before it is opened.
NotOpened(src) ==
    [cells |-> src.cells, fp |-> 0, _mode |-> _MODE_CLOSED, _check |-> <<>>,
     _index |-> <<>>, _size |-> 0, _pos |-> 0, _block_offset |-> 0,
     _block_ends_at |-> <<>>, _buffer |-> <<>>, _decompressor |-> Unused,
     op |-> "", ret |-> <<>>, res |-> -1, exc |-> "",
     made |-> 0, number |-> 0, moved |-> 0,
     plain |-> src.plain, checks |-> src.checks, sizes |-> src.sizes,
     kind |-> src.kind,
     target |-> 0, before |-> <<>>,
     _closefp |-> FALSE, closes |-> 0, fail |-> ""]

SeekInit ==
    /\ xz \in {NotOpened(src) : src \in SeekSources(SeekLen)}
    /\ drv = Unused
    /\ lock = 0
    /\ th = Unused
    /\ wire = <<>>
    /\ hist = Unused
    /\ os = Unused
    /\ file = Unused
    /\ heap = Unused

\* The reader exists: its constructor returned.
Opened == xz.op # "" /\ ~(xz.op = "open" /\ xz.exc # "")

\* The reader as a call finds it.
AtCall == [xz EXCEPT !.made = 0, !.moved = 0]

\* What the properties keep of a call: `target` is the position asked for
\* (the offset of a seek resolved by whence, before any clamping) and
\* `before` the position asked of the seek before this call, if the call
\* before this one was a seek that returned.
Noted(X, target) ==
    [X EXCEPT !.target = target,
              !.before = IF xz.op = "seek" /\ xz.exc = "" THEN <<xz.target>> ELSE <<>>]

\* _SeekableXZFile(fp)
XzOpen ==
    /\ xz.op = ""
    /\ xz' = Noted(_SeekableXZFile(xz), 0)
    /\ UNCHANGED <<drv, lock, th, wire, hist, os, file, heap>>

XzRead ==
    /\ Opened
    /\ \E size \in -1..MaxSeekRead : xz' = Noted(SeekRead(AtCall, size), size)
    /\ UNCHANGED <<drv, lock, th, wire, hist, os, file, heap>>

XzRead1 ==
    /\ Opened
    /\ \E size \in -1..MaxSeekRead : xz' = Noted(SeekRead1(AtCall, size), size)
    /\ UNCHANGED <<drv, lock, th, wire, hist, os, file, heap>>

XzPeek ==
    /\ Opened
    /\ xz' = Noted(SeekPeek(AtCall), 0)
    /\ UNCHANGED <<drv, lock, th, wire, hist, os, file, heap>>

\* seek(offset, whence): from the start to any position of the file and one
\* before and after it, from the current position and from the end by a
\* short distance.
XzSeek ==
    /\ Opened
    /\ \E whence \in 0..2 :
         \E offset \in IF whence = 0 THEN -1..(Len(xz.plain) + 1)
                       ELSE IF whence = 1 THEN -MaxSkip..MaxSkip
                       ELSE -MaxSkip..1 :
            xz' = Noted(seek(AtCall, offset, whence),
                        IF whence = 0 THEN offset
                        ELSE IF whence = 1 THEN xz._pos + offset
                        ELSE xz._size + offset)
    /\ UNCHANGED <<drv, lock, th, wire, hist, os, file, heap>>

XzTell ==
    /\ Opened
    /\ xz' = Noted(tell(AtCall), 0)
    /\ UNCHANGED <<drv, lock, th, wire, hist, os, file, heap>>

XzClose ==
    /\ Opened
    /\ xz' = Noted(SeekableClose(AtCall), 0)
    /\ UNCHANGED <<drv, lock, th, wire, hist, os, file, heap>>

SeekNext == XzOpen \/ XzRead \/ XzRead1 \/ XzPeek \/ XzSeek \/ XzTell \/ XzClose

SpecSeek == SeekInit /\ [][SeekNext]_vars

\* --------------------------------------- LZMAFile() and the index it builds
\* LZMAFile(fp, mode, format, seek=...) on a file object fp, and the
\* constructor of _SeekableXZFile pass by pass of its loops.
\*   th   the call: its arguments and the constructor's locals
\*          pc        "call", then "loop" (the test of `while fp.tell() > 0`),
\*                    "padding" (the test of the padding loop), "done"
\*          io        what fp is: "file", "BytesIO" or "pipe" (not seekable)
\*          mode, format, seek   the arguments
\*          padding, index, check   the locals padding and index, self._check
\*          cls       the class whose constructor LZMAFile() called
\*          exc       the exception raised, "" if none
\*   xz   the _SeekableXZFile object, xz.fp the position of fp
\*   file the _LZMAFile object, if that is what LZMAFile() made

\* Longest file LZMAFile() is called on, in words.
OpenLen == 21
\* Longest damaged file LZMAFile() is called on, in words.
DamagedLen == 11

\* The files of zero words only.
ZeroSources(n) == {SeekSource([i \in 1..k |-> Word(Pad)], <<>>, "zero") : k \in 0..n}

\* The files that hold a stream of the legacy format.
AloneSources ==
    {SeekSource(Words(Stream(FORMAT_ALONE, d)), <<>>, "alone") : d \in PlainSamples(1)}

OpenSources ==
    ValidSources(OpenLen) \cup ZeroSources(OpenLen) \cup AloneSources
        \cup MismatchSources(DamagedLen) \cup MisalignedSources(DamagedLen)

\* The arguments of the calls: a file read, written, or opened with a mode
\* that is none of the six.
OpenArgs ==
    {a \in [io : {"file", "BytesIO", "pipe"}, mode : {"r", "w", "r+"},
            format : {"None", FORMAT_AUTO, FORMAT_XZ, FORMAT_ALONE}, seek : BOOLEAN] :
        a.mode = "w" => a.format \in {"None", FORMAT_XZ}}

OpenInit ==
    /\ xz \in {NotOpened(src) : src \in OpenSources}
    /\ th \in {[pc |-> "call", io |-> a.io, mode |-> a.mode, format |-> a.format,
                 seek |-> a.seek, padding |-> 0, index |-> <<>>, check |-> <<>>,
                 cls |-> "", exc |-> ""] : a \in OpenArgs}
    /\ file = Unused
    /\ drv = Unused
    /\ lock = 0
    /\ wire = <<>>
    /\ hist = Unused
    /\ os = Unused
    /\ heap = Unused

\* fp.seekable()
FpSeekable(io) == io # "pipe"

\* _detect_xz(fp): fp.seek(0); return _peek(fp, 6) == b'\xfd7zXZ\x00'
_detect_xz(cells) == _peek(cells, 0, 1) = <<Word("H")>>

\* A test that always picks _SeekableXZFile.
PicksSeekable_always(io, seek_, mode, format, cells) == TRUE

\* A test that never picks _SeekableXZFile.
PicksSeekable_never(io, seek_, mode, format, cells) == FALSE

\* The test of LZMAFile() that picks _SeekableXZFile, with format already
\* FORMAT_AUTO when it was left out.
PicksSeekable(io, seek_, mode, format, cells) ==
    /\ FpSeekable(io) /\ seek_ /\ mode \in {"r", "rb", "r+"}
    /\ \/ format = FORMAT_XZ
       \/ /\ format = FORMAT_AUTO /\ _detect_xz(cells)
          /\ mode \in {"r", "rb"}

\* The constructor raises.
InitRaises(exc) ==
    /\ th' = [th EXCEPT !.pc = "done", !.exc = exc]
    /\ xz' = [xz EXCEPT !.op = "open", !.exc = exc]

\* LZMAFile(fp, mode, format=format, seek=seek), up to the loop of
\* _SeekableXZFile.__init__ (whose fp.seek(0, SEEK_END) raises when fp cannot
\* seek) or to the return of _LZMAFile(...).
LZMAFileCall ==
    /\ th.pc = "call"
    /\ IF PicksSeekable(th.io, th.seek, th.mode,
                        IF FpSeekable(th.io) /\ th.seek /\ th.format = "None"
                        THEN FORMAT_AUTO ELSE th.format, xz.cells)
       THEN /\ IF FpSeekable(th.io)
               THEN /\ th' = [th EXCEPT !.pc = "loop", !.cls = "_SeekableXZFile"]
                    /\ xz' = [xz EXCEPT !.fp = Len(xz.cells)]
               ELSE /\ th' = [th EXCEPT !.pc = "done", !.cls = "_SeekableXZFile",
                                        !.exc = "UnsupportedOperation"]
                    /\ xz' = [xz EXCEPT !.op = "open", !.exc = "UnsupportedOperation"]
            /\ file' = file
       ELSE /\ file' = _LZMAFile([plain |-> <<>>, raw |-> TagsOf(xz.cells), whole |-> TRUE],
                                 th.mode, th.format, FALSE)
            /\ th' = [th EXCEPT !.pc = "done", !.exc = file'.exc, !.cls = "_LZMAFile"]
            /\ xz' = xz
    /\ UNCHANGED <<drv, lock, wire, hist, os, heap>>

\* while fp.tell() > 0, the size test and the seek before the padding loop;
\* after the loop the test of index, _move_to_block(0) and the return.
InitLoop ==
    /\ th.pc = "loop"
    /\ IF xz.fp > 0
       THEN IF TooSmall(xz.fp) THEN InitRaises("file too small")
            ELSE /\ xz' = [xz EXCEPT !.fp = SeekCur(th.io, @, -1)]
                 /\ th' = [th EXCEPT !.pc = "padding", !.padding = 0]
       ELSE IF th.index = <<>> THEN InitRaises("file is empty")
       ELSE /\ xz' = _move_to_block([xz EXCEPT !.op = "open", !._check = th.check,
                                               !._index = th.index,
                                               !._size = uncompressed_size(th.index)],
                                    0).x
            /\ th' = [th EXCEPT !.pc = "done"]
    /\ UNCHANGED <<drv, lock, wire, hist, os, file, heap>>

\* One pass of the padding loop: the word at fp is zero.
InitPadding ==
    /\ th.pc = "padding"
    /\ th.padding <= Len(xz.cells)
    /\ _peek(xz.cells, xz.fp, 1) = <<Word(Pad)>>
    /\ IF SeekCur(th.io, xz.fp, -1) < 0 THEN InitRaises("OSError")
       ELSE /\ xz' = [xz EXCEPT !.fp = SeekCur(th.io, @, -1)]
            /\ th' = [th EXCEPT !.padding = @ + 1]
    /\ UNCHANGED <<drv, lock, wire, hist, os, file, heap>>

\* The padding loop ends: the word at fp is not zero; the rest of the pass.
InitStream ==
    /\ th.pc = "padding"
    /\ _peek(xz.cells, xz.fp, 1) # <<Word(Pad)>>
    /\ \E r \in {StreamAt(th.io, xz.cells, xz.fp, th.padding)} :
          IF r.exc # "" THEN InitRaises(r.exc)
          ELSE /\ xz' = [xz EXCEPT !.fp = r.pos]
               /\ th' = [th EXCEPT !.pc = "loop",
                                   !.index = MergeIndex(r.index, @),
                                   !.check = Append(@, r.check)]
    /\ UNCHANGED <<drv, lock, wire, hist, os, file, heap>>

OpenNext == LZMAFileCall \/ InitLoop \/ InitPadding \/ InitStream

SpecOpen == OpenInit /\ [][OpenNext]_vars

-----------------------------------------------------------------------------
\* The life of a file object, an _LZMAFile or a _SeekableXZFile: its
\* constructor, every method in any order, close() at any time.

\* Longest source of an _LZMAFile, longest container of a _SeekableXZFile.
LifeFileLen == 3
LifeSeekLen == 12
\* Most bytes given to write() over the life of a file.
MaxTaken == 2

\* The _LZMAFile before its constructor is called.
NotConstructed(src) ==
    [LZMAFileInit(src) EXCEPT !._mode = _MODE_CLOSED, !._decompressor = Unused]

\* A file opened for writing is a new, empty file.
NewFile == [raw |-> <<>>, plain |-> <<>>, whole |-> FALSE]

LifeInit ==
    /\ \/ /\ file \in {NotConstructed(src) :
                          src \in FileSources(LifeFileLen) \cup TruncatedSources(LifeFileLen)}
          /\ xz = Unused
       \/ /\ file = Unused
          /\ xz \in {[NotOpened(src) EXCEPT !._closefp = close_fp, !.fail = fail] :
                        src \in SeekSources(LifeSeekLen), close_fp \in BOOLEAN,
                        fail \in {"", "close"}}
    /\ drv = Unused
    /\ lock = 0
    /\ th = Unused
    /\ wire = <<>>
    /\ hist = Unused
    /\ os = Unused
    /\ heap = Unused

\* The _LZMAFile exists: its constructor returned.
Constructed == file.op # "" /\ ~(file.op = "open" /\ file.exc # "")

\* _LZMAFile(fp, mode, close_fp=close_fp); `fail` is the call that will
\* raise, if any: fp.close() in any mode, the flush or fp.write() in a file
\* opened for writing.
WrapOpen ==
    /\ file # Unused
    /\ file.op = ""
    /\ \E mode \in {"r", "w", "r+"}, close_fp \in BOOLEAN,
          fail \in {"", "flush", "write", "close"} :
          /\ fail \in {"flush", "write"} => mode = "w"
          /\ fail = "close" => close_fp
          /\ file' = [_LZMAFile(IF mode = "w" THEN NewFile
                                ELSE [raw |-> file._fp, plain |-> file.plain,
                                      whole |-> file.whole],
                                mode, "None", close_fp) EXCEPT !.fail = fail]
    /\ UNCHANGED <<drv, lock, th, wire, hist, os, heap, xz>>

\* read(size), read1(size), peek() up to the first call of _fill_buffer.
WrapCall ==
    /\ file # Unused
    /\ Constructed /\ file.pc = "idle"
    /\ \E op \in {"read", "read1", "peek"}, size \in {-1} \cup 0..MaxRead :
          file' = Begin(file, op, size)
    /\ UNCHANGED <<drv, lock, th, wire, hist, os, heap, xz>>

WrapFill ==
    /\ file # Unused
    /\ FileFill

WrapWrite ==
    /\ file # Unused
    /\ Constructed /\ file.pc = "idle"
    /\ \E data \in SeqsUpTo(Data, 2) :
          /\ Len(file.taken) + Len(data) <= MaxTaken
          /\ file' = write(file, data)
    /\ UNCHANGED <<drv, lock, th, wire, hist, os, heap, xz>>

WrapSeek ==
    /\ file # Unused
    /\ Constructed /\ file.pc = "idle"
    /\ file' = _LZMAFile_seek(file, 0)
    /\ UNCHANGED <<drv, lock, th, wire, hist, os, heap, xz>>

WrapTell ==
    /\ file # Unused
    /\ Constructed /\ file.pc = "idle"
    /\ file' = _LZMAFile_tell(file)
    /\ UNCHANGED <<drv, lock, th, wire, hist, os, heap, xz>>

WrapQuery ==
    /\ file # Unused
    /\ Constructed /\ file.pc = "idle"
    /\ \E op \in {"fileno", "readable", "writable", "seekable"} :
          file' = _LZMAFile_query(file, op)
    /\ UNCHANGED <<drv, lock, th, wire, hist, os, heap, xz>>

WrapClose ==
    /\ file # Unused
    /\ Constructed /\ file.pc = "idle"
    /\ file' = close(file)
    /\ UNCHANGED <<drv, lock, th, wire, hist, os, heap, xz>>

XzQuery ==
    /\ Opened
    /\ \E op \in {"fileno", "readable", "writable", "seekable"} :
          xz' = Noted(_SeekableXZFile_query(AtCall, op), 0)
    /\ UNCHANGED <<drv, lock, th, wire, hist, os, file, heap>>

XzWrite ==
    /\ Opened
    /\ \E data \in SeqsUpTo(Data, 1) :
          xz' = Noted(_SeekableXZFile_write(AtCall, data), 0)
    /\ UNCHANGED <<drv, lock, th, wire, hist, os, file, heap>>

\* The methods of the _SeekableXZFile, where there is one.
ReaderOpen == xz # Unused /\ XzOpen
ReaderRead == xz # Unused /\ XzRead
ReaderRead1 == xz # Unused /\ XzRead1
ReaderPeek == xz # Unused /\ XzPeek
ReaderSeek == xz # Unused /\ XzSeek
ReaderTell == xz # Unused /\ XzTell
ReaderClose == xz # Unused /\ XzClose
ReaderQuery == xz # Unused /\ XzQuery
ReaderWrite == xz # Unused /\ XzWrite

LifeNext ==
    \/ WrapOpen \/ WrapCall \/ WrapFill \/ WrapWrite \/ WrapSeek \/ WrapTell
    \/ WrapQuery \/ WrapClose
    \/ ReaderOpen \/ ReaderRead \/ ReaderRead1 \/ ReaderPeek \/ ReaderSeek
    \/ ReaderTell \/ ReaderClose \/ ReaderQuery \/ ReaderWrite

SpecLife == LifeInit /\ [][LifeNext]_vars

\* ------------------------------------------------------------ properties
\* A call that left its loop and is about to return.
Returning(t) == th[t].pc = "ret" /\ th[t].f.st = "break"

\* C2: a feed returns exactly the bytes the engine wrote during the call, in
\* the order it wrote them, nothing lost, doubled or padded, whatever the
\* number of segments: a first one of BUFSIZ bytes, then ones of SEGSIZ bytes.
C2_FeedReturnsWhatEngineProduced ==
    \A t \in Threads :
        Returning(t) =>
            /\ JoinOuts(th[t].f) = th[t].f.produced
            /\ Len(th[t].f.outs[1]) = BUFSIZ
            /\ \A i \in 2..Len(th[t].f.outs) : Len(th[t].f.outs[i]) = SEGSIZ

\* A decompress call returns from three segments, the last one partly filled.
C2_Witness ==
    \E t \in Threads :
        /\ Returning(t)
        /\ drv.kind = "decomp"
        /\ Len(th[t].f.outs) = 3
        /\ th[t].f.avail_out > 0 /\ th[t].f.avail_out < th[t].f.siz

\* C3: a RUN feed that returns before the end of the stream has consumed its
\* whole chunk and has left no output pending in the engine: when the step
\* that consumed the last input byte also filled the output segment, the loop
\* goes on into a new segment and fetches what is pending.
C3_RunFeedLeavesNoOutputPending ==
    \A t \in Threads :
        (Returning(t) /\ th[t].f.action = LZMA_RUN
                      /\ th[t].f.lastret # "LZMA_STREAM_END") =>
            /\ th[t].f.next_in = <<>>
            /\ drv.lzs.pend = <<>>

\* The index of the end marker closing the first stream in s, 0 if s holds
\* no complete well-formed stream.
StreamEnd(s) ==
    LET ends == {i \in 2..Len(s) :
                    /\ s[i] = EOS
                    /\ \A j \in 2..(i - 1) : s[j] \in Data \/ IsRun(s[j])}
    IN IF Len(s) > 0 /\ (IsHdrXZ(s[1]) \/ s[1] = HdrAlone) /\ ends # {}
       THEN CHOOSE i \in ends : \A j \in ends : i <= j
       ELSE 0

\* C4: eof is true exactly when the engine has reported the end of the stream;
\* then unused_data is what was fed after the stream's end marker, verbatim,
\* and before that unused_data is empty.  A complete stream followed by extra
\* bytes, fed in one call, raises nothing and leaves the extra bytes in
\* unused_data.
C4_EofAndUnusedData ==
    drv.kind = "decomp" =>
        /\ drv.eof <=> drv.lzs.seq = "end"
        /\ ~drv.eof => drv.unused_data = <<>>
        /\ drv.eof => /\ StreamEnd(hist.fed) > 0
                      /\ drv.unused_data = Drop(hist.fed, StreamEnd(hist.fed))
        /\ \A t \in Threads :
              (th[t].pc = "ret" /\ hist.fed = th[t].data /\ StreamEnd(th[t].data) > 0) =>
                  /\ th[t].exc = ""
                  /\ drv.unused_data = Drop(th[t].data, StreamEnd(th[t].data))

\* A single call was given a complete stream and three more bytes, and left them.
C4_Witness ==
    \E t \in Threads :
        /\ th[t].pc = "ret" /\ th[t].exc = ""
        /\ hist.fed = th[t].data
        /\ drv.eof
        /\ Len(drv.unused_data) = 3
        /\ drv.unused_data = Drop(th[t].data, StreamEnd(th[t].data))

\* C7: compress() on a flushed compressor and decompress() on a decompressor
\* at eof raise (ValueError, EOFError) without a step of the engine, and leave
\* the driver, eof, unused_data, check, flushed and the engine, as it was.
C7_UseAfterFinishRaises ==
    \A t \in Threads :
        (th[t].pc \in {"loop", "ret"} /\ th[t].entry /\ th[t].op \in {"compress", "decompress"}) =>
            /\ th[t].pc = "ret"
            /\ th[t].exc = IF th[t].op = "decompress" THEN "EOFError" ELSE "ValueError"
            /\ th[t].f.steps = 0
            /\ th[t].snap = <<drv>>

\* decompress() was called at eof, with unused_data kept from before.
C7_Witness ==
    \E t \in Threads :
        /\ th[t].pc = "ret" /\ th[t].entry /\ th[t].op = "decompress"
        /\ th[t].exc = "EOFError"
        /\ drv.unused_data # <<>>

\* C8: flush() feeds the empty chunk with LZMA_FINISH; the engine is given
\* LZMA_FINISH in at most one call, and a flush() on a flushed compressor
\* raises ValueError without a step of the engine.
C8_FlushAtMostOnce ==
    /\ hist.nfinish <= 1
    /\ \A t \in Threads :
          (th[t].pc \in {"loop", "ret"} /\ th[t].op = "flush") =>
              IF th[t].entry
              THEN th[t].pc = "ret" /\ th[t].exc = "ValueError" /\ th[t].f.steps = 0
              ELSE th[t].f.action = LZMA_FINISH /\ th[t].data = <<>>

\* A second flush() raised after the first one had finished the stream.
C8_Witness ==
    \E t \in Threads :
        /\ th[t].pc = "ret" /\ th[t].op = "flush" /\ th[t].entry
        /\ th[t].exc = "ValueError"
        /\ hist.nfinish = 1
        /\ drv.lzs.seq = "end"

\* A thread inside the with-block of compress / flush / decompress.
Inside(t) == th[t].pc \in {"loop", "ret"}

\* C9: at most one thread at a time is inside the with-block, hence inside
\* the loop that drives the engine; the lock is held exactly while a thread is
\* inside, by that thread, so every way out of the call, a raise included,
\* has released it.
C9_MutualExclusion ==
    /\ Cardinality({t \in Threads : Inside(t)}) <= 1
    /\ lock = 0 <=> ~\E t \in Threads : Inside(t)
    /\ lock # 0 => Inside(lock)

\* The engine reported an error to one thread while another waits for the lock.
C9_Witness ==
    \E t, u \in Threads :
        /\ th[t].pc = "ret" /\ th[t].exc = "LZMAError"
        /\ th[u].pc = "lock"

\* C1: round trip.  Once the one-shot decompress of compress(b) is done, it
\* has raised nothing and has returned exactly b, for every b: empty, one byte,
\* and lengths whose output goes past the first output segment.
C1_RoundTrip ==
    (os.phase = "done" /\ Len(os.inputs) = 1)
        => (os.exc = "" /\ os.out = os.inputs[1])

\* The round trip of a sequence longer than the first output segment and one
\* growth segment together is done.
C1_Witness ==
    /\ os.phase = "done"
    /\ Len(os.inputs) = 1
    /\ Len(os.inputs[1]) > BUFSIZ + SEGSIZ
    /\ os.out = os.inputs[1]

\* The stream holding exactly the bytes compress() returned for input i onward.
RECURSIVE BlobsFrom(_, _)
BlobsFrom(blobs, i) ==
    IF i > Len(blobs) THEN <<>> ELSE blobs[i] \o BlobsFrom(blobs, i + 1)

\* C6: one-shot decompress of concatenated streams.  While decompress() of
\* compress(a) + compress(b) runs, the pieces decoded so far are the inputs
\* in stream order, each by a decompressor of its own whose unused_data (the
\* streams after its own) is what the next one is fed; when it is done it
\* has raised nothing and returned a + b.
C6_ConcatenatedStreams ==
    Len(os.inputs) > 1 =>
        /\ os.phase \in {"decompress", "done"} =>
              /\ os.exc = ""
              /\ os.ndec = Len(os.results)
              /\ os.results = SubSeq(os.inputs, 1, Len(os.results))
              /\ os.ndec > 0 =>
                    /\ drv.eof
                    /\ drv.unused_data = BlobsFrom(os.blobs, os.ndec + 1)
              /\ os.phase = "decompress" => os.data = BlobsFrom(os.blobs, os.ndec + 1)
        /\ os.phase = "done" =>
              /\ os.out = Concat(os.inputs)
              /\ os.ndec = Len(os.inputs)

\* Two non-empty sequences, the first longer than the first output segment,
\* were compressed, joined and decompressed.
C6_Witness ==
    /\ os.phase = "done"
    /\ Len(os.inputs) = 2
    /\ Len(os.inputs[1]) > BUFSIZ
    /\ os.inputs[2] # <<>>
    /\ os.out = os.inputs[1] \o os.inputs[2]
\* s is the beginning of t.
IsPrefix(s, t) == Len(s) <= Len(t) /\ s = SubSeq(t, 1, Len(s))

\* C5: reading a source of k >= 1 complete concatenated streams through the
\* wrapper never fails, returns the streams' contents in order, and has
\* returned all of them when the file enters read-exhausted mode, wherever
\* the chunks read from the source end.
C5_MultiStreamRead ==
    /\ file.exc \notin {"EOFError", "LZMAError"}
    /\ IsPrefix(file.got, file.plain)
    /\ file._mode = _MODE_READ_EOF => file.got = file.plain
\* In every state: a handle belongs to exactly one driver, a driver whose
\* constructor returned has one, lzma_end ran at most once on it and only
\* when no reference led to it any more.
HandlesOwnedAndReleasedOnce ==
    /\ \A h \in Made(heap.lzs) :
          /\ Cardinality({o \in Made(heap.obj) : heap.obj[o].lzs = h}) = 1
          /\ heap.lzs[h].ends <= 1
          /\ heap.lzs[h].ends = 1 => ~Reachable(heap, h)
          /\ heap.lzs[h].st = "freed" => heap.lzs[h].ends = 1
    /\ \A o \in ReachableDrivers(heap) : heap.obj[o].lzs \in Made(heap.lzs)

\* C10: engine handle ownership.  Every handle a constructor made belongs to
\* exactly one driver and lzma_end runs on it exactly once: never twice, never
\* while its driver is in use, and in the end once its driver is discarded,
\* whether the constructor failed after making it, the sequential wrapper
\* replaced the driver, the seekable reader switched blocks or the file was closed.
C10_HandleOwnership ==
    /\ []HandlesOwnedAndReleasedOnce
    /\ \A h \in DriverIds :
          (heap.lzs[h].st # "none" /\ ~Reachable(heap, h)) ~> (heap.lzs[h].ends = 1)

\* Two drivers were discarded and lzma_end has run once on the handle of each,
\* while the handle of the wrapper's present driver is live.
C10_Witness ==
    /\ heap.seq._decompressor = 3
    /\ heap.obj[1].lzs = 1 /\ heap.lzs[1].ends = 1
    /\ heap.obj[2].lzs = 2 /\ heap.lzs[2].ends = 1
    /\ heap.lzs[3].st = "live"

\* The call of thread t has had an engine step return a status that is none
\* of ok, need-check (LZMA_GET_CHECK, LZMA_NO_CHECK) and stream-end.
StepFailed(t) ==
    /\ th[t].f.steps > 0
    /\ th[t].f.lastret \notin {"LZMA_OK", "LZMA_GET_CHECK", "LZMA_NO_CHECK",
                               "LZMA_STREAM_END"}

\* C11: engine error propagation.  When a step of a feed returns a status
\* other than ok, need-check and stream-end, the call is at once on its way
\* out with an error: it has left the loop by the raise, it returns no bytes
\* (not even those the engine wrote before the failing step) and it makes no
\* further engine step.
C11_EngineErrorAborts ==
    /\ [](\A t \in Threads :
            StepFailed(t) => /\ th[t].pc = "ret"
                             /\ th[t].f.st = "raise"
                             /\ th[t].exc = "LZMAError"
                             /\ ~Returning(t))
    /\ [][\A t \in Threads :
            StepFailed(t) => \/ th'[t] = th[t]
                             \/ th'[t] = IdleThread /\ drv' = drv]_vars

\* A decompress call fails on corrupt data in its second step, after the
\* engine wrote output during the call.
C11_Witness ==
    /\ th[1].pc = "ret"
    /\ th[1].f.lastret = "LZMA_DATA_ERROR"
    /\ th[1].f.steps = 2
    /\ th[1].f.produced # <<>>
    /\ th[1].exc = "LZMAError"

\* The source has no more bytes and the driver has neither unused_data nor
\* reached eof, as _fill_buffer is about to look for input.
SourceEndedEarly ==
    /\ file.pc = "fill"
    /\ file._buffer = <<>>
    /\ file._fp = <<>>
    /\ file._decompressor.unused_data = <<>>
    /\ ~file._decompressor.eof

\* The last call reported a clean end of file: read(size # 0), read1(size # 0)
\* or peek() returned b"".
ReturnedEmpty ==
    /\ file.pc = "idle"
    /\ file.op \in {"read", "read1", "peek"}
    /\ file.exc = ""
    /\ file.ret = <<>>
    /\ file.op = "peek" \/ file.n # 0

\* C12: premature end in the sequential wrapper.  When the source returns no
\* more bytes and the driver has no unused_data and has not reached eof, the
\* call under way (read, read1 or peek) raises EOFError; on a truncated file
\* the wrapper never returns b"" as for an end of file and never enters
\* read-exhausted mode; on a file of complete streams it never raises EOFError.
C12_PrematureEnd ==
    /\ [][SourceEndedEarly => file'.pc = "idle" /\ file'.exc = "EOFError"]_vars
    /\ [](~file.whole => ~ReturnedEmpty /\ file._mode # _MODE_READ_EOF)
    /\ [](file.whole => file.exc # "EOFError")

\* Bytes [from, to) of the contents of the file.
Contents(from, to) == SubSeq(xz.plain, from + 1, IF to < Len(xz.plain) THEN to ELSE Len(xz.plain))

\* C13: seek/read equivalence in the seekable reader.  From any state of an
\* open reader, seek(o) with o in [0, size] returns, and read(k), k >= 0,
\* right after it returns bytes [o, min(o + k, size)) of the contents the
\* file holds when read from its start.
C13_SeekReadEquivalence ==
    /\ (xz.op = "seek" /\ xz._mode # _MODE_CLOSED /\ xz.target \in 0..Len(xz.plain))
          => xz.exc = ""
    /\ (xz.op = "read" /\ xz.before # <<>> /\ xz.target >= 0)
          => (xz.before[1] \in 0..Len(xz.plain)
                => /\ xz.exc = ""
                   /\ xz.ret = Contents(xz.before[1], xz.before[1] + xz.target))

\* min(max(target, 0), size)
Clamped(target) ==
    IF target < 0 THEN 0 ELSE IF target > xz._size THEN xz._size ELSE target

\* C14: seek landing position.  When seek returns, for any target (the offset
\* resolved by whence: negative, inside the file, at its end or past it), its
\* result and the position are min(max(target, 0), size), and size is the
\* length of the contents; tell() right after it returns the same number.
C14_SeekLandsOnClampedTarget ==
    /\ (xz.op = "seek" /\ xz.exc = "") =>
          /\ xz._size = Len(xz.plain)
          /\ xz.res = Clamped(xz.target)
          /\ xz._pos = Clamped(xz.target)
    /\ (xz.op = "tell" /\ xz.before # <<>> /\ xz.exc = "") =>
          xz.res = Clamped(xz.before[1])

\* A seek switched blocks and then decoded and discarded bytes up to a
\* target inside the new block, and returned the target.
C14_Witness ==
    /\ xz.op = "seek" /\ xz.exc = ""
    /\ xz.made = 1
    /\ xz.target > xz._block_offset
    /\ xz._block_offset > 0
    /\ xz.res = xz.target

\* C15: per-block driver configuration.  A driver made during the last call
\* for a block of stream number s, counted in file order, was given the check
\* kind that stream s declares in its header and footer.
C15_DriverGetsCheckOfItsStream ==
    (Opened /\ xz.made > 0) => xz._decompressor.check = xz.checks[xz.number]

\* This step is a call of seek on a reader in read mode, with a block loaded,
\* and the target it resolves to lies in [from, the end of the loaded block).
SeekInLoadedBlock(from) ==
    /\ Opened /\ xz._mode = _MODE_READ
    /\ xz._block_ends_at # <<>>
    /\ xz'.op = "seek"
    /\ from <= xz'.target /\ xz'.target < xz._block_ends_at[1]

\* The call of this step made no driver, did not reposition the source and
\* kept the loaded block and the pending output beyond the target.
NoBlockSwitch ==
    /\ xz'.made = 0
    /\ xz'.moved = 0
    /\ xz'._block_offset = xz._block_offset
    /\ xz'._block_ends_at = xz._block_ends_at
    /\ Len(xz._buffer) > xz'.target - xz._pos =>
          xz'._buffer = Drop(xz._buffer, xz'.target - xz._pos)

\* C16 as stated: a seek whose target lies in the loaded block's range
\* [block start, block end) performs no block switch.
C16_WithinBlockSeek ==
    [][SeekInLoadedBlock(xz._block_offset) => NoBlockSwitch]_vars

\* C16 as the code has it: a seek whose target lies in [current position,
\* block end) of the loaded block performs no block switch: no driver is
\* made, the source is not repositioned and the pending output is kept.
C16_ForwardWithinBlockSeek ==
    [][SeekInLoadedBlock(xz._pos) => NoBlockSwitch]_vars

\* A seek moved forward inside the loaded block, to a position after the
\* block's start and before its end, without a new driver, and output is
\* pending after it.
C16_Witness ==
    /\ xz.op = "seek" /\ xz.exc = ""
    /\ xz.made = 0 /\ xz.moved = 0
    /\ xz._block_offset < xz.target
    /\ xz.target < xz._block_ends_at[1]
    /\ xz.res = xz.target
    /\ xz._buffer # <<>>

\* This step is a call of read, read1 or peek on a reader in read-exhausted mode.
ReadsWhenExhausted ==
    /\ Opened /\ xz._mode = _MODE_READ_EOF
    /\ xz'.op \in {"read", "read1", "peek"}

\* C17: seek past end.  After a seek whose target is at or past the size the
\* reader is in read-exhausted mode at position = size; in that mode read,
\* read1 and peek return b"" and leave the mode and the position as they
\* are, so they keep returning b"" until a seek.
C17_SeekPastEnd ==
    /\ []((xz.op = "seek" /\ xz._mode # _MODE_CLOSED /\ xz.target >= xz._size) =>
            /\ xz._mode = _MODE_READ_EOF
            /\ xz._pos = xz._size)
    /\ [][ReadsWhenExhausted =>
            /\ xz'.exc = "" /\ xz'.ret = <<>>
            /\ xz'._mode = _MODE_READ_EOF
            /\ xz'._pos = xz._pos]_vars

\* A file that holds data was sought past its end from inside a block, and
\* the read after the seek returned b"".
C17_Witness ==
    /\ xz.op = "read" /\ xz.exc = "" /\ xz.ret = <<>>
    /\ xz.before # <<>> /\ xz.before[1] > xz._size
    /\ xz._size > 1
    /\ xz.target > 0
    /\ xz._mode = _MODE_READ_EOF /\ xz._pos = xz._size

\* The constructor has run on a file of n words.
OpenedFileOf(n) == xz.op = "open" /\ Len(xz.cells) = n

\* C18 as stated: opening a file of any size from 0 up to
\* 2 x STREAM_HEADER_SIZE - 1 fails with "file too small".
C18_TruncatedContainer ==
    \A n \in 0..(2 * STREAM_HEADER_SIZE - 1) :
        OpenedFileOf(n) => xz.exc = "file too small"

\* C18 as the code has it: opening a file of any size from 1 up to
\* 2 x STREAM_HEADER_SIZE - 1 fails with "file too small", whatever the
\* file holds.
C18_TruncatedNonEmptyContainer ==
    \A n \in 1..(2 * STREAM_HEADER_SIZE - 1) :
        OpenedFileOf(n) => xz.exc = "file too small"

\* A file one word short of two stream headers, cut from the end of a
\* well-formed file, was refused.
C18_Witness ==
    /\ OpenedFileOf(2 * STREAM_HEADER_SIZE - 1)
    /\ xz.cells[Len(xz.cells)] = Word("F")
    /\ xz.exc = "file too small"

\* C19: header/footer agreement.  Opening a file in which the footer of some
\* stream names another check kind than its header (the stream alone, first
\* or last in the file) fails with "header and footer don't match"; a reader
\* that was opened holds, for every stream, the check kind that both the
\* header and the footer of the stream declare.
C19_HeaderFooterAgreement ==
    xz.op = "open" =>
        /\ xz.kind = "mismatch" => xz.exc = "header and footer don't match"
        /\ xz.exc = "" =>
              /\ xz.kind = ""
              /\ Len(xz._check) = Len(xz.checks)
              /\ \A i \in 1..Len(xz.checks) :
                    xz._check[Len(xz.checks) + 1 - i] = xz.checks[i]

\* A file of two streams, the first with a footer that names another check
\* kind than its header, was refused after its last stream had been parsed.
C19_Witness ==
    /\ xz.op = "open" /\ xz.kind = "mismatch"
    /\ xz.exc = "header and footer don't match"
    /\ xz.cells[2] # Cell(xz.cells[Len(xz.cells) - 1].t, 0)
    /\ Cardinality({i \in 1..Len(xz.cells) : xz.cells[i].t = "H"}) = 2

\* C20: index construction end condition.  Opening a file that holds no
\* stream, or whose streams do not begin at position 0 (junk or zero words
\* before the first stream, or the first words of the first stream missing),
\* fails with "file is empty" and with nothing else.
C20_IndexConstructionEnd ==
    (xz.op = "open" /\ (xz.cells = <<>> \/ (xz.kind = "misaligned"
                                             /\ Len(xz.cells) >= 2 * STREAM_HEADER_SIZE)))
        => xz.exc = "file is empty"

\* The blocks of the reader's index, with their offsets.
IndexedBlocks == IndexBlocks(xz._index, 1, 0, 0)

\* C21: global index order.  A reader that was opened holds the streams in
\* file order, each with its blocks in file order; every block's offset in
\* the file is where a block begins; the blocks' uncompressed ranges start at
\* 0 and each begins where the one before it ends, within and across
\* streams; the size is the sum of the blocks' uncompressed sizes, the length
\* of the contents.
C21_GlobalIndexOrder ==
    (xz.op = "open" /\ xz.exc = "") =>
        /\ Len(xz._index) = Len(xz.sizes)
        /\ \A i \in 1..Len(xz.sizes) :
              [j \in 1..Len(xz._index[i].blocks) |->
                   xz._index[i].blocks[j].uncompressed_size] = xz.sizes[i]
        /\ \A k \in 1..Len(IndexedBlocks) :
              /\ xz.cells[IndexedBlocks[k].compressed_file_offset + 1].t \in {"B", "B2"}
              /\ IndexedBlocks[k].uncompressed_file_offset
                    = IF k = 1 THEN 0
                      ELSE IndexedBlocks[k - 1].uncompressed_file_offset
                             + IndexedBlocks[k - 1].uncompressed_size
        /\ xz._size = SumOver(IndexedBlocks, "u")
        /\ xz._size = Len(xz.plain)

\* A file of two streams was opened, each with one block, the first block
\* shorter than the second, which begins where the first ends.
C21_Witness ==
    /\ xz.op = "open" /\ xz.exc = ""
    /\ Len(xz._index) = 2
    /\ Len(xz._index[1].blocks) = 1
    /\ Len(xz._index[2].blocks) = 1
    /\ xz._index[1].blocks[1].uncompressed_size = 1
    /\ xz._index[2].blocks[1].uncompressed_size = 2
    /\ IndexedBlocks[2].uncompressed_file_offset = 1
    /\ xz._size = 3

\* The file is a well-formed container whose streams hold no block.
EmptyContainer == xz.kind = "" /\ xz.plain = <<>>

\* C30: empty container.  Opening a well-formed container without blocks
\* succeeds and leaves the reader in read-exhausted mode at position 0; every
\* seek on the open reader, to any target, returns 0 and raises nothing; read
\* returns b"".
C30_EmptyContainer ==
    (EmptyContainer /\ Opened /\ xz._mode # _MODE_CLOSED) =>
        /\ xz._mode = _MODE_READ_EOF /\ xz._pos = 0 /\ xz._size = 0
        /\ xz.op = "open" => xz.exc = ""
        /\ xz.op = "seek" => xz.exc = "" /\ xz.res = 0
        /\ xz.op = "read" => xz.exc = "" /\ xz.ret = <<>>

\* The input the wrapper has not given to a driver yet: what its driver
\* left unused, then what is left in the source.
PendingInput(F) == F._decompressor.unused_data \o F._fp

\* This step is a pass of _fill_buffer that finds the buffer empty and the
\* driver holding unused_data.
DrainingPass ==
    /\ file.pc = "fill" /\ file._buffer = <<>>
    /\ file._decompressor.unused_data # <<>>
    /\ file' # file

\* C27: unused data is drained first.  A pass of _fill_buffer that finds
\* unused_data in the driver reads nothing from the source and feeds exactly
\* those bytes to a fresh driver; over every pass the input not yet given to
\* a driver only loses bytes at its front, so no byte is fed twice or dropped.
C27_UnusedDataDrainedFirst ==
    /\ [][DrainingPass =>
            /\ file'._fp = file._fp
            /\ file'._decompressor =
                  DriverCall(LZMADecompressorInit(file._init_args), "decompress",
                             file._decompressor.unused_data).d]_vars
    /\ [][(file.pc = "fill" /\ file'._mode # _MODE_CLOSED) =>
            \E n \in 0..Len(PendingInput(file)) :
                PendingInput(file') = Drop(PendingInput(file), n)]_vars

\* Inside _fill_buffer, after bytes were returned, the buffer is empty, the
\* driver has reached the end of a stream and holds the first bytes of the
\* next one as unused_data, and the source has more.
C27_Witness ==
    /\ file.pc = "fill" /\ file._buffer = <<>>
    /\ file._decompressor.eof
    /\ Len(file._decompressor.unused_data) = 2
    /\ file._fp # <<>>
    /\ file.got # <<>>

\* LZMAFile() was asked for a reader with seeking on a file object that can
\* seek and whose first bytes are those of the indexed container.
AskedSeekable ==
    /\ FpSeekable(th.io) /\ th.seek /\ th.mode = "r"
    /\ th.format \in {"None", FORMAT_AUTO, FORMAT_XZ}
    /\ _detect_xz(xz.cells)

\* C22: no silent fallback.  The class is chosen by the call before any of
\* the file's index is parsed and never changes afterwards; a call that asks
\* for seeking on an indexed container is given to _SeekableXZFile, and when
\* the construction of the index fails the call fails with that error and
\* no _LZMAFile object exists for the file.
C22_NoSilentFallback ==
    /\ [](th.pc = "call" => xz.op = "" /\ xz.fp = 0 /\ th.index = <<>>)
    /\ [][th.pc # "call" => th'.cls = th.cls /\ file' = file]_vars
    /\ []((AskedSeekable /\ th.pc # "call") =>
            /\ th.cls = "_SeekableXZFile"
            /\ file = Unused
            /\ th.pc = "done" => th.exc = xz.exc
            /\ (th.pc = "done" /\ xz.kind # "") => th.exc # "")

\* A file whose second stream has a footer that disagrees with its header
\* was refused after its other stream had been parsed, and no sequential
\* wrapper was made.
C22_Witness ==
    /\ AskedSeekable /\ th.pc = "done"
    /\ xz.kind = "mismatch"
    /\ th.exc = "header and footer don't match"
    /\ th.check # <<>>
    /\ th.cls = "_SeekableXZFile" /\ file = Unused

\* LZMAFile() returned a seekable reader, a sequential wrapper.
ReturnedSeekable ==
    /\ th.pc = "done" /\ th.cls = "_SeekableXZFile" /\ th.exc = ""
    /\ _SeekableXZFile_seekable(xz) = [exc |-> "", val |-> TRUE]
ReturnedSequential ==
    /\ th.pc = "done" /\ th.cls = "_LZMAFile" /\ th.exc = ""
    /\ _LZMAFile_seekable(file) = [exc |-> "", val |-> FALSE]

\* The format of the call is the indexed container: named by the caller, or
\* left to detection with the container's magic bytes at the start of the file.
FormatIsXZ ==
    \/ th.format = FORMAT_XZ
    \/ th.format \in {"None", FORMAT_AUTO} /\ _detect_xz(xz.cells)

\* C26 as stated: a call with a valid mode returns a seekable reader only
\* when the file object can seek and the file begins with the magic bytes of
\* the indexed container; in every other case it returns the sequential
\* wrapper, whose seekable() is false.
C26_SeekingAvailability ==
    (th.pc = "done" /\ th.mode \in {"r", "w"}) =>
        /\ ReturnedSeekable => FpSeekable(th.io) /\ _detect_xz(xz.cells)
        /\ ~(FpSeekable(th.io) /\ _detect_xz(xz.cells)) => ReturnedSequential

\* C26 as the code has it: a call with a valid mode returns a seekable
\* reader only when the file object can seek, the file is read with seeking
\* asked for and the format is the indexed container, named by the caller or
\* detected by the magic bytes; the file it returns the reader for begins
\* with the magic bytes.  In every other case it returns the sequential
\* wrapper, whose seekable() is false.
C26_SeekingAvailabilityByFormat ==
    (th.pc = "done" /\ th.mode \in {"r", "w"}) =>
        /\ ReturnedSeekable =>
              /\ FpSeekable(th.io) /\ th.seek /\ th.mode = "r" /\ FormatIsXZ
              /\ _detect_xz(xz.cells)
        /\ ~(FpSeekable(th.io) /\ th.seek /\ th.mode = "r" /\ FormatIsXZ)
              => ReturnedSequential

\* A pipe that carries an indexed container was opened for reading with
\* seeking asked for, and the sequential wrapper was returned.
C26_Witness ==
    /\ ReturnedSequential
    /\ th.io = "pipe" /\ th.seek /\ th.mode = "r" /\ th.format = "None"
    /\ xz.kind = "" /\ xz.plain # <<>>
    /\ file._mode = _MODE_READ

\* C29: the index construction terminates: every pass of the backward scan
\* over the zero padding moves the file position strictly toward the start
\* of the file, so the scan stops at or before position 0.
C29_PaddingScanTerminates ==
    [][(th.pc = "padding" /\ th'.pc = "padding") => xz'.fp < xz.fp]_vars

\* A step that changes the mode of an _LZMAFile is the constructor, from
\* closed to reading or writing; or a read, read1 or peek that finds the
\* source at its end with the driver at the end of a stream, from reading to
\* read-exhausted; or close(), to closed.
FileModeStep ==
    \/ /\ file._mode = _MODE_CLOSED /\ file'._mode \in {_MODE_READ, _MODE_WRITE}
       /\ file.op = "" /\ file'.op = "open"
    \/ /\ file._mode = _MODE_READ /\ file'._mode = _MODE_READ_EOF
       /\ file'.op \in {"read", "read1", "peek"}
       /\ file'._fp = <<>> /\ file'._decompressor.eof
       /\ file'._decompressor.unused_data = <<>>
    \/ file'._mode = _MODE_CLOSED /\ file'.op = "close"

\* The same of a _SeekableXZFile, the end of the file being the position
\* `size`.
ReaderModeStep ==
    \/ /\ xz._mode = _MODE_CLOSED /\ xz'._mode = _MODE_READ
       /\ xz.op = "" /\ xz'.op = "open"
    \/ /\ xz._mode = _MODE_READ /\ xz'._mode = _MODE_READ_EOF
       /\ xz'.op \in {"read", "read1", "peek", "seek"}
       /\ xz'._pos = xz'._size
    \/ xz'._mode = _MODE_CLOSED /\ xz'.op = "close"

\* What a _SeekableXZFile does besides: its constructor leaves a container
\* without data in read-exhausted mode, and a seek to a position inside the
\* file takes it from read-exhausted back to reading.
ReaderModeStepBack ==
    \/ /\ xz._mode = _MODE_CLOSED /\ xz'._mode = _MODE_READ_EOF
       /\ xz.op = "" /\ xz'.op = "open" /\ xz'._size = 0
    \/ /\ xz._mode = _MODE_READ_EOF /\ xz'._mode = _MODE_READ
       /\ xz'.op = "seek" /\ xz'.target < xz._size

\* C23 as stated: the mode of a file object changes only from closed to
\* reading or writing on open, from reading to read-exhausted at the end of
\* the file with no more streams, and to closed on close().
C23_ModeTransitions ==
    [][/\ (file # Unused /\ file'._mode # file._mode) => FileModeStep
       /\ (xz # Unused /\ xz'._mode # xz._mode) => ReaderModeStep]_vars

\* C23 as the code has it: besides these, the constructor of the seekable
\* reader goes from closed to read-exhausted on a container without data,
\* and a seek of the seekable reader to a position inside the file goes from
\* read-exhausted to reading.
C23_ModeTransitionsWithSeek ==
    [][/\ (file # Unused /\ file'._mode # file._mode) => FileModeStep
       /\ (xz # Unused /\ xz'._mode # xz._mode) =>
              (ReaderModeStep \/ ReaderModeStepBack)]_vars

\* A seek took the reader back from read-exhausted mode: the call before it
\* was a seek to the end of the file or past it.
C23_Witness ==
    /\ xz # Unused
    /\ xz.op = "seek" /\ xz.exc = "" /\ xz._mode = _MODE_READ
    /\ xz.before # <<>> /\ xz.before[1] >= xz._size /\ xz._size > 0
    /\ xz.target < xz._size

\* A call of close() on an _LZMAFile.  Whatever it raised, the file is
\* closed, fp is dropped and fp.close() was called once if close_fp was
\* given.  On a closed file it raised nothing, wrote nothing and closed
\* nothing.  On a file open for writing it gave the flush output, which is
\* not empty, to fp.write once, unless the flush or fp.write raised; on a
\* file open for reading it wrote nothing.
FileCloseStep ==
    /\ file'._mode = _MODE_CLOSED /\ file'._fp = <<>> /\ file'._closefp = FALSE
    /\ file'.taken = file.taken
    /\ IF file._mode = _MODE_CLOSED
       THEN file'.exc = "" /\ file'.sink = file.sink /\ file'.closes = file.closes
       ELSE /\ file'.closes = file.closes + (IF file._closefp THEN 1 ELSE 0)
            /\ file.fail = "" => file'.exc = ""
            /\ file.fail # "" /\ (file.fail = "close" => file._closefp)
                 /\ (file.fail \in {"flush", "write"} => file._mode = _MODE_WRITE)
                 => file'.exc # ""
            /\ IF file._mode = _MODE_WRITE /\ file.fail \notin {"flush", "write"}
               THEN /\ Len(file'.sink) = Len(file.sink) + 1
                    /\ SubSeq(file'.sink, 1, Len(file.sink)) = file.sink
                    /\ file'.sink[Len(file'.sink)] # <<>>
               ELSE file'.sink = file.sink

\* A call of close() on a _SeekableXZFile, likewise; the position of fp
\* stays where it was.
ReaderCloseStep ==
    /\ xz'._mode = _MODE_CLOSED /\ xz'._closefp = FALSE /\ xz'.fp = xz.fp
    /\ xz'._decompressor = Unused /\ xz'._buffer = <<>>
    /\ IF xz._mode = _MODE_CLOSED
       THEN xz'.exc = "" /\ xz'.closes = xz.closes
       ELSE /\ xz'.closes = xz.closes + (IF xz._closefp THEN 1 ELSE 0)
            /\ xz'.exc # "" <=> (xz._closefp /\ xz.fail = "close")

\* C24: close() always ends in the closed mode with the source dropped,
\* whether it returns or raises; a second close() raises nothing, writes
\* nothing and does not close the source again; the first close() of a file
\* open for writing writes the flush output of the compressor exactly once.
\* Once closed, nothing is written to the source or closed any more.
C24_CloseIdempotent ==
    /\ [][(file # Unused /\ file'.op = "close") => FileCloseStep]_vars
    /\ [][(xz # Unused /\ xz'.op = "close") => ReaderCloseStep]_vars
    /\ [][(file # Unused /\ Constructed /\ file._mode = _MODE_CLOSED)
             => file'.sink = file.sink /\ file'.closes = file.closes]_vars
    /\ [][(xz # Unused /\ Opened /\ xz._mode = _MODE_CLOSED)
             => xz'.closes = xz.closes /\ xz'.fp = xz.fp]_vars

\* A second close() returned on a file open for writing whose first close()
\* flushed the compressor and could not write the output: fp was closed
\* once and nothing was written to it.
C24_Witness ==
    /\ file # Unused
    /\ file.op = "close" /\ file.exc = "" /\ file._mode = _MODE_CLOSED
    /\ file.fail = "write" /\ file.closes = 1 /\ file.sink = <<>>
    /\ file._compressor # Unused /\ file._compressor.flushed

\* What the code keeps of an _LZMAFile and of a _SeekableXZFile, and what
\* became of the source.
FileState(F) ==
    <<F._mode, F._pos, F._size, F._buffer, F._decompressor, F._compressor, F._fp,
      F._closefp, F.sink, F.closes, F.got, F.taken>>
ReaderState(X) ==
    <<X._mode, X._pos, X._size, X._buffer, X._decompressor, X.fp, X._index, X._check,
      X._block_offset, X._block_ends_at, X._closefp, X.closes>>

TellWritePeek ==
    /\ [](file # Unused /\ Constructed =>
            /\ IsPrefix(file.got, file.plain)
            /\ (file.op = "tell" /\ file.exc = "") => file.res = file._pos
            /\ (file.op = "peek" /\ file.pc = "idle" /\ file.exc = "") =>
                  /\ file.ret = file._buffer \/ file.ret = <<>>
                  /\ IsPrefix(file.got \o file.ret, file.plain))
    /\ [][(file # Unused /\ file'.op = "write" /\ file'.exc = "") =>
             /\ file'.res = Len(file'.taken) - Len(file.taken)
             /\ IsPrefix(file.taken, file'.taken)
             /\ file'._pos = file._pos + file'.res]_vars
    /\ [][(file # Unused /\ file'.op = "peek") =>
             file'._pos = file._pos /\ file'.got = file.got]_vars

\* C28 as stated: between calls the position of an _LZMAFile is the number
\* of bytes read() and read1() returned so far, or write() took so far.
C28_PositionAccounting ==
    /\ TellWritePeek
    /\ [](file # Unused /\ Constructed /\ file.pc = "idle" =>
            file._pos = Len(file.got) + Len(file.taken))

\* C28 as the code has it: between calls the position is the number of
\* bytes read() and read1() returned so far plus the bytes that calls of
\* read() had taken from the stream when they raised, or the number of bytes
\* write() took so far.
C28_PositionAccountingWithLost ==
    /\ TellWritePeek
    /\ [](file # Unused /\ Constructed /\ file.pc = "idle" =>
            file._pos = Len(file.got) + file.lost + Len(file.taken))

\* read() raised EOFError on a truncated file after it had taken bytes from
\* the stream, and tell() was called after it.
C28_Witness ==
    /\ file # Unused
    /\ file.lost > 0 /\ ~file.whole /\ file._mode = _MODE_READ
    /\ file.op = "tell" /\ file.exc = "" /\ file.res = Len(file.got) + file.lost

\* C31: with compress(chunk) and flush() called by two threads on one
\* compressor, a compress() that steps the engine holds the lock and steps
\* it before any LZMA_FINISH step, and a compress() that finds the
\* compressor flushed raises ValueError without stepping the engine: no
\* LZMA_RUN step follows an LZMA_FINISH step, and the engine never reports
\* LZMA_PROG_ERROR.
C31_CompressFlushRace ==
    /\ [](\A t \in Threads :
            /\ (th[t].op = "compress" /\ th[t].pc = "loop") =>
                  /\ lock = t /\ ~drv.flushed
                  /\ hist.nfinish = 0 /\ drv.lzs.seq # "finish"
            /\ (th[t].op = "compress" /\ th[t].pc = "ret") =>
                  IF th[t].entry
                  THEN th[t].exc = "ValueError" /\ th[t].f.steps = 0
                  ELSE /\ th[t].exc # "ValueError"
                       /\ th[t].f.action = LZMA_RUN /\ th[t].f.steps > 0
            /\ drv.kind = "comp" => th[t].f.lastret # "LZMA_PROG_ERROR")
    /\ [][\A t \in Threads :
            (th[t].op = "compress" /\ th'[t].f.steps > th[t].f.steps) =>
                hist.nfinish = 0 /\ hist'.nfinish = 0]_vars

\* flush() has stepped the engine with LZMA_FINISH and holds the lock while
\* a compress(chunk) of the other thread waits for it.
C31_Witness ==
    \E t, u \in Threads :
        /\ th[t].op = "flush" /\ th[t].pc \in {"loop", "ret"} /\ lock = t
        /\ hist.nfinish = 1
        /\ th[u].op = "compress" /\ th[u].pc = "lock" /\ th[u].data # <<>>

\* C32: a flush() in which the engine reports an error leaves the compressor
\* flushed all the same: the mark is never taken back, every compress() and
\* flush() after it raises ValueError without a step of the engine, and once
\* the flush has left, the compressor and its engine stay as they are.
C32_FailedFlushIsFinal ==
    /\ [](\A t \in Threads :
            /\ (th[t].op = "flush" /\ StepFailed(t)) => drv.flushed
            /\ (drv.kind = "comp" /\ th[t].pc \in {"loop", "ret"} /\ th[t].entry) =>
                  /\ th[t].pc = "ret" /\ th[t].exc = "ValueError"
                  /\ th[t].f.steps = 0)
    /\ [](drv.kind = "comp" /\ hist.nfinish > 0 => drv.flushed)
    /\ [][(drv.kind = "comp" /\ drv.flushed) =>
             /\ drv'.flushed
             /\ (lock = 0 \/ \E t \in Threads : lock = t /\ th[t].entry) => drv' = drv]_vars

\* compress(chunk) raised ValueError on a compressor whose flush() had
\* stepped the engine and got an error from it.
C32_Witness ==
    /\ drv.kind = "comp" /\ drv.flushed /\ drv.lzs.seq = "error"
    /\ hist.nfinish = 1 /\ hist.fed # <<>>
    /\ th[1].op = "compress" /\ th[1].pc = "ret" /\ th[1].entry
    /\ th[1].exc = "ValueError" /\ th[1].data # <<>>

\* C33: one-shot decompress(data) ends on every finite input.  Every pass of
\* its loop either ends the call or hands the next fresh decompressor a
\* strictly shorter remainder, the unused_data of the pass, which is a
\* suffix of what the pass was fed; so the passes made and the bytes left never
\* add up to more than the length of the input.  The call ends by returning
\* the joined pieces or by raising: an engine error, or LZMAError when a
\* decompressor does not reach eof, as it does not on the empty input, which
\* raises in the first pass.
C33_OneShotTerminates ==
    /\ [][os.phase = "decompress" =>
            IF os'.phase = "decompress"
            THEN /\ Len(os'.data) < Len(os.data)
                 /\ os'.data = Drop(os.data, Len(os.data) - Len(os'.data))
                 /\ os'.data = drv'.unused_data /\ drv'.eof
                 /\ os'.ndec = os.ndec + 1
            ELSE os'.phase = "done"]_vars
    /\ [](os.phase = "decompress" => os.ndec + Len(os.data) <= Len(os.inputs[1]))
    /\ [](os.phase = "done" =>
            /\ os.ndec >= 1
            /\ os.ndec <= IF os.inputs[1] = <<>> THEN 1 ELSE Len(os.inputs[1])
            /\ \/ os.exc = "" /\ os.out = Concat(os.results) /\ drv.eof
                    /\ drv.unused_data = <<>> /\ Len(os.results) = os.ndec
               \/ os.exc = "LZMAError" /\ os.out = <<>>
            /\ ~drv.eof => os.exc = "LZMAError"
            /\ os.inputs[1] = <<>> => os.exc = "LZMAError" /\ os.ndec = 1)
    /\ <>(os.phase = "done")

\* decompress() of a complete stream followed by the start of another: the
\* second decompressor is fed the shorter remainder, does not reach eof, and
\* the call raises.
C33_Witness ==
    /\ os.phase = "done" /\ os.ndec = 2 /\ os.exc = "LZMAError"
    /\ os.results # <<>> /\ ~drv.eof
    /\ os.data # <<>> /\ Len(os.data) < Len(os.inputs[1])

====
